---- MODULE Spec2Model ----
(***************************************************************************)
(* CollegeBazaar front-end: the ParticleGrid background animation          *)
(* (src/frontend/src/components/ParticleGrid.jsx).                         *)
(*                                                                         *)
(* One effect instance of ParticleGrid is modelled together with the parts *)
(* of the browser it talks to: the window size, the canvas element, the    *)
(* requestAnimationFrame callback list and the window's resize listener.   *)
(* JavaScript runs every handler to completion, so each handler is one     *)
(* action.                                                                 *)
(*                                                                         *)
(* Numbers.  Canvas and window dimensions are integers (pixels), as in the *)
(* DOM.  Particle coordinates, radii and velocities are reals in the code; *)
(* here they are fixed-point integers counting 1/Scale of a pixel.  A      *)
(* result of Math.random() is a numerator n standing for n / RandDen, with *)
(* 0 <= n < RandDen.  A particle's life counts units of 0.004 rad, the     *)
(* increment of one frame, so that one frame adds exactly 1.               *)
(***************************************************************************)
EXTENDS Integers, Sequences, FiniteSets, TLC

VARIABLES
    innerW, innerH,     \* window.innerWidth, window.innerHeight
    canvasW, canvasH,   \* canvas.width, canvas.height
    ctx,                \* result of canvas.getContext('2d'): "2d" or "null"
    animId,             \* closure variable animId (Undefined until first assigned)
    particles,          \* closure variable particles: sequence of particle records
    nextId,             \* identity of the next particle object the engine allocates
    rafPending,         \* browser: handles of the pending animation frame callbacks
    nextHandle,         \* browser: next handle requestAnimationFrame returns
    listener,           \* browser: resize is registered as a window 'resize' listener
    phase,              \* "unmounted" | "mounted" | "failed" | "stopped"
    error,              \* error thrown out of the effect, "none" if none
    surface,            \* canvas bitmap: the drawing operations since it was last blank
    ticks,              \* animation frames the browser has delivered
    resizes,            \* window resize events the browser has delivered
    frameLog,           \* history: what the latest call of draw did, in order
    lastOp,             \* history: the last step taken
    prevW, prevH,       \* history: canvas size before the last call of resize()
    twin,               \* the pool of a second run of the frame loop
    run,                \* the handler on the call stack and the statement it is at
    built,              \* history: the canvas size and count the pool was built for
    insts,              \* two effect instances: the closure and the canvas of each
    rafTwo,             \* browser: their pending frame callbacks, [h, owner]
    route,              \* router: location.pathname
    clock,              \* browser: the time, in ms
    timers,             \* browser: the pending setTimeout callbacks
    nextTimer,          \* browser: the id the next setTimeout returns
    buy,                \* Browse's BuyModal: mounted or not, its step, and (history)
                        \* how many timers this instance has scheduled
    sell,               \* the Sell page: mounted or not, form, submitting, done
    sellLog,            \* history: what the Sell submissions did, in order
    chat,               \* the Chat page: threads, activeId, input, showOffer, offerAmt
    counter             \* an animated counter: its state, closure and pending frame

\* the state of one effect instance and of the browser around it
gridVars == <<innerW, innerH, canvasW, canvasH, ctx, animId, particles, nextId,
              rafPending, nextHandle, listener, phase, error, surface, ticks,
              resizes, frameLog, lastOp, prevW, prevH>>

\* the state the single-instance specifications leave alone
stepVars == <<run, built>>
twoVars == <<insts, rafTwo>>
shopVars == <<route, clock, timers, nextTimer, buy, sell, sellLog>>
pageVars == <<chat, counter>>
otherVars == <<twin, stepVars, twoVars, shopVars, pageVars>>

vars == <<gridVars, otherVars>>

-----------------------------------------------------------------------------
(* Bounds of the model *)

\* animation frames the browser delivers
MaxTicks == 3
\* window resize events the browser delivers
MaxResizes == 2
\* fixed-point resolution: coordinates count 1/Scale pixel
Scale == 100
\* Math.random() returns n / RandDen
RandDen == 2000

\* window sizes the environment chooses from, <<innerWidth, innerHeight>>
WindowSizes == {<<0, 0>>, <<100, 100>>, <<160, 100>>, <<200, 160>>}

(* Program constants *)
PoolDivisor == 16000
LinkDist == 90
DefaultCanvasW == 300
DefaultCanvasH == 150

Undefined == 0
NoError == "none"
ClearOp(w, h) == [op |-> "clear", w |-> w, h |-> h]

(***************************************************************************)
(* The outcomes of the seven Math.random() calls that build one particle,  *)
(* in the order the object literal evaluates them: x, y, r, vx, vy, life,  *)
(* type.  The model draws each particle's seven numerators from this set.  *)
(***************************************************************************)
RandomDraws ==
    { <<0,    1000, 0,    1999, 1000, 0,    1999>>,   \* left edge, moving right
      <<899,  1000, 1000, 1999, 1000, 500,  0>>,      \* 89.9 px to its right
      <<900,  1000, 1000, 1999, 1000, 500,  1999>>,   \* 90 px to its right
      <<901,  1000, 1000, 1999, 1000, 500,  0>>,      \* 90.1 px to its right
      <<900,  1000, 1999, 900,  1000, 1000, 801>>,    \* 90 px, drifting left
      <<0,    0,    0,    0,    0,    0,    800>>,    \* origin, moving up-left
      <<1999, 1999, 1999, 1999, 1999, 1999, 1999>> }  \* far corner, moving down-right

-----------------------------------------------------------------------------
(* init: the particle pool *)

CountCeil(w, h) == ((w * h) + PoolDivisor - 1) \div PoolDivisor
\* Math.floor((canvas.width * canvas.height) / 16000)
Count(w, h) == (w * h) \div PoolDivisor

\* one particle object from seven random numerators
NewParticle(d, w, h, id) ==
    [ id   |-> id,
      x    |-> (d[1] * w * Scale) \div RandDen,
      y    |-> (d[2] * h * Scale) \div RandDen,
      r    |-> ((d[3] * 14 * Scale) \div (10 * RandDen)) + ((2 * Scale) \div 10),
      vx   |-> ((2 * d[4] - RandDen) * Scale) \div (10 * RandDen),
      vy   |-> ((2 * d[5] - RandDen) * Scale) \div (10 * RandDen),
      life |-> (d[6] * 15708) \div (10 * RandDen),
      type |-> IF 10 * d[7] > 4 * RandDen THEN "cyan" ELSE "acid" ]

\* the sequences of random outcomes one call of init consumes
DrawSeqs(n) == [1..n -> RandomDraws]

initKeepOld(old, w, h, ds, firstId) ==
    old \o [i \in 1..Count(w, h) |-> NewParticle(ds[i], w, h, firstId + i - 1)]
\* init(): particles = [] and then count pushes
init(old, w, h, ds, firstId) ==
    [i \in 1..Count(w, h) |-> NewParticle(ds[i], w, h, firstId + i - 1)]

-----------------------------------------------------------------------------
(* draw: the simulation step *)

WrapMirror(v, bound) == IF v < 0 THEN 0 - v ELSE IF v > bound THEN 2 * bound - v ELSE v
WrapClamp(v, bound) == IF v < 0 THEN 0 ELSE IF v > bound THEN bound ELSE v
WrapNoUpper(v, bound) == IF v < 0 THEN bound ELSE v
\* if (v < 0) v = bound; if (v > bound) v = 0   (the two tests run in sequence)
Wrap(v, bound) ==
    LET a == IF v < 0 THEN bound ELSE v
    IN  IF a > bound THEN 0 ELSE a

StepParticleBounce(p, w, h) ==
    LET bx == p.x + p.vx < 0 \/ p.x + p.vx > w * Scale
        by == p.y + p.vy < 0 \/ p.y + p.vy > h * Scale
    IN  [p EXCEPT !.life = p.life + 1,
                  !.x = IF bx THEN p.x ELSE p.x + p.vx,
                  !.vx = IF bx THEN 0 - p.vx ELSE p.vx,
                  !.y = IF by THEN p.y ELSE p.y + p.vy,
                  !.vy = IF by THEN 0 - p.vy ELSE p.vy]
\* the body of particles.forEach up to the wrap, for one particle
StepParticle(p, w, h) ==
    [p EXCEPT !.life = p.life + 1,
              !.x = Wrap(p.x + p.vx, w * Scale),
              !.y = Wrap(p.y + p.vy, h * Scale)]

StepAll(pool, w, h) == [i \in 1..Len(pool) |-> StepParticle(pool[i], w, h)]

\* the pool after k consecutive calls of draw
RECURSIVE Frames(_, _, _, _)
Frames(pool, w, h, k) ==
    IF k = 0 THEN pool ELSE Frames(StepAll(pool, w, h), w, h, k - 1)

-----------------------------------------------------------------------------
(* draw: rendering *)

\* floor of the square root of n, by bisection on lo..hi (lo*lo <= n < (hi+1)*(hi+1))
RECURSIVE SqrtIn(_, _, _)
SqrtIn(n, lo, hi) ==
    IF lo >= hi THEN lo
    ELSE LET mid == (lo + hi + 1) \div 2
         IN  IF mid * mid <= n THEN SqrtIn(n, mid, hi) ELSE SqrtIn(n, lo, mid - 1)

\* Math.hypot(dx, dy), rounded down to the fixed-point grid
Hypot(dx, dy) == SqrtIn(dx * dx + dy * dy, 0, 46340)

LinkedInclusive(dist) == dist <= LinkDist * Scale
\* dist < 90
Linked(dist) == dist < LinkDist * Scale

Dist(p, q) == Hypot(p.x - q.x, p.y - q.y)

\* Math.sin of a life value, in hundredths.  The argument is reduced to
\* a = 2 * life mod 3142, an angle in units of 0.002 rad (pi = 1571 units), and
\* the half wave is the rational approximation 16a(pi-a) / (5 pi^2 - 4a(pi-a)),
\* which like the sine is 0 at 0 and pi and peaks at pi/2 without exceeding 1.
HalfWave(a) == (100 * 16 * a * (1571 - a)) \div (5 * 1571 * 1571 - 4 * a * (1571 - a))
Sin100(life) ==
    LET a == (2 * life) % 3142
    IN  IF a <= 1571 THEN HalfWave(a) ELSE 0 - HalfWave(a - 1571)

FillAlphaWide(p) ==
    LET alpha == (6 * Sin100(p.life) + 500) * 6
    IN  IF p.type = "cyan" THEN alpha * 10 ELSE alpha * 7
\* the alpha of the fill style, in 1/100000:
\* alpha = (Math.sin(p.life) * 0.4 + 0.5) * 0.6, used as it is for 'cyan' and
\* as alpha * 0.7 otherwise
FillAlpha(p) ==
    LET alpha == (4 * Sin100(p.life) + 500) * 6
    IN  IF p.type = "cyan" THEN alpha * 10 ELSE alpha * 7

\* ctx.arc + ctx.fill for one particle
FillOp(p) ==
    [op |-> "fill", id |-> p.id, x |-> p.x, y |-> p.y, r |-> p.r,
     type |-> p.type, life |-> p.life, alpha |-> FillAlpha(p)]

\* the alpha of a stroke style is LinkAlpha / LinkAlphaDen
LinkAlphaDen == 100 * LinkDist * Scale
LinkAlphaFlat(dist) == 7 * LinkDist * Scale
\* 0.07 * (1 - dist / 90)
LinkAlpha(dist) == 7 * (LinkDist * Scale - dist)

\* moveTo / lineTo / stroke for the pair (i, j); width10 is lineWidth in tenths
StrokeOp(pool, i, j) ==
    [op |-> "stroke", i |-> i, j |-> j,
     x1 |-> pool[i].x, y1 |-> pool[i].y, x2 |-> pool[j].x, y2 |-> pool[j].y,
     dist |-> Dist(pool[i], pool[j]),
     alpha |-> LinkAlpha(Dist(pool[i], pool[j])),
     width10 |-> 5]

\* the inner loop, from j to Len(pool)
RECURSIVE StrokesRow(_, _, _)
StrokesRow(pool, i, j) ==
    IF j > Len(pool) THEN <<>>
    ELSE (IF Linked(Dist(pool[i], pool[j])) THEN <<StrokeOp(pool, i, j)>> ELSE <<>>)
         \o StrokesRow(pool, i, j + 1)

\* the outer loop, from i to Len(pool)
RECURSIVE Strokes(_, _)
Strokes(pool, i) ==
    IF i > Len(pool) THEN <<>>
    ELSE StrokesRow(pool, i, i + 1) \o Strokes(pool, i + 1)

RenderStrokesFirst(pool, w, h) ==
    <<ClearOp(w, h)>> \o Strokes(pool, 1) \o [i \in 1..Len(pool) |-> FillOp(pool[i])]
\* what one call of draw paints, given the pool after its simulation step
Render(pool, w, h) ==
    <<ClearOp(w, h)>> \o [i \in 1..Len(pool) |-> FillOp(pool[i])] \o Strokes(pool, 1)

\* one entry of the log of a call of draw
Event(ev, i, j) == [ev |-> ev, i |-> i, j |-> j]

FrameEventsFillFirst(pool, h) ==
    <<Event("clear", 0, 0)>>
    \o [k \in 1..(2 * Len(pool)) |->
          IF k % 2 = 1 THEN Event("fill", (k + 1) \div 2, 0)
                       ELSE Event("step", k \div 2, 0)]
    \o [k \in 1..Len(Strokes(pool, 1)) |->
          Event("stroke", Strokes(pool, 1)[k].i, Strokes(pool, 1)[k].j)]
    \o <<Event("register", h, 0)>>
\* the statements of one call of draw in the order they run: clearRect; for
\* each particle its step and then its fill; the strokes of the pair loops;
\* requestAnimationFrame (pool is the pool after the steps, h the new handle)
FrameEvents(pool, h) ==
    <<Event("clear", 0, 0)>>
    \o [k \in 1..(2 * Len(pool)) |->
          IF k % 2 = 1 THEN Event("step", (k + 1) \div 2, 0)
                       ELSE Event("fill", k \div 2, 0)]
    \o [k \in 1..Len(Strokes(pool, 1)) |->
          Event("stroke", Strokes(pool, 1)[k].i, Strokes(pool, 1)[k].j)]
    \o <<Event("register", h, 0)>>

\* the log after k consecutive calls of draw, the last registering handle h
Logged(old, pool, h, k) == IF k = 0 THEN old ELSE FrameEvents(pool, h)

\* the bitmap after k consecutive calls of draw ending in pool
Painted(old, pool, w, h, k) == IF k = 0 THEN old ELSE Render(pool, w, h)

-----------------------------------------------------------------------------
(* the effect: mount, frames, resize events, cleanup *)

NeverThrows(c) == FALSE
\* ctx.clearRect on a null context throws a TypeError
DrawThrows(c) == c = "null"

KeepHandle(old, h) == old
\* animId = requestAnimationFrame(draw)
StoredHandle(old, h) == h

\* the other variables before anything has run
\* Sell: useState({ title:'', category:'', condition:'good', price:'', desc:'' });
\* the text of the price input is a sequence of characters
EmptyForm ==
    [title |-> "", category |-> "", condition |-> "good", price |-> <<>>, desc |-> ""]

\* an effect instance that has not run: a fresh canvas, nothing registered
Unmounted ==
    [phase |-> "unmounted", canvasW |-> DefaultCanvasW, canvasH |-> DefaultCanvasH,
     animId |-> Undefined, particles |-> <<>>, listener |-> FALSE, surface |-> <<>>]

\* no handler is running
Idle == [task |-> "none", pc |-> "idle", idx |-> 0]

\* Chat: a text message and an offer message of a thread; a message has
\* either a text or an offer, the other is absent ("" and NoOffer)
NoOffer == [amount |-> <<>>, label |-> ""]
Text(id, mine, text, h, m, pm) ==
    [id |-> id, mine |-> mine, text |-> text, offer |-> NoOffer,
     time |-> [h |-> h, m |-> m, pm |-> pm]]
Offer(id, mine, amount, label, h, m, pm) ==
    [id |-> id, mine |-> mine, text |-> "",
     offer |-> [amount |-> amount, label |-> label],
     time |-> [h |-> h, m |-> m, pm |-> pm]]

\* const THREADS = [...]
THREADS ==
    << [id |-> "1", messages |->
          << Text(1, FALSE, "Hi! Is the textbook still available?", 2, 14, TRUE),
             Text(2, TRUE, "Yes! Great condition, just light pencil marks.", 2, 16, TRUE),
             Offer(3, FALSE, <<"6", ".", "0", "0">>, "Price Offer", 2, 17, TRUE),
             Text(4, TRUE, "I can do 7 ALGO - that's my best!", 2, 19, TRUE),
             Text(5, FALSE, "Deal! 7 ALGO. Meet at library today?", 2, 21, TRUE) >>],
       [id |-> "2", messages |->
          << Text(1, FALSE, "Does the cycle come with a basket?", 11, 30, FALSE),
             Text(2, TRUE, "No basket, but includes original lock & key!", 11, 32, FALSE) >>],
       [id |-> "3", messages |->
          << Text(1, FALSE, "Still sealed in the box?", 9, 5, FALSE),
             Text(2, TRUE, "100% sealed, never opened.", 9, 7, FALSE),
             Text(3, FALSE, "Perfect, I'll take it at asking price.", 9, 10, FALSE) >>] >>

\* the state of a Chat that has just mounted
ChatMounted ==
    [mounted |-> TRUE, threads |-> THREADS, activeId |-> "1", input |-> "",
     showOffer |-> FALSE, offerAmt |-> <<>>]

\* no animated counter has mounted
NoCounter ==
    [kind |-> "none", mounted |-> FALSE, target |-> 0, duration |-> 0,
     start |-> FALSE, val |-> 0, startTime |-> Undefined, pending |-> FALSE,
     now |-> 0, frames |-> 0]

OtherInit ==
    /\ twin = <<>>
    /\ run = Idle
    /\ built = [w |-> Undefined, h |-> Undefined, first |-> 1, n |-> 0]
    /\ insts = [i \in 1..2 |-> Unmounted]
    /\ rafTwo = {}
    /\ route = "/"
    /\ clock = 0
    /\ timers = {}
    /\ nextTimer = 1
    /\ buy = [open |-> FALSE, inst |-> 0, step |-> "confirm", scheduled |-> 0]
    /\ sell = [mounted |-> FALSE, inst |-> 0, form |-> EmptyForm,
               submitting |-> FALSE, done |-> FALSE]
    /\ sellLog = <<>>
    /\ chat = [ChatMounted EXCEPT !.mounted = FALSE]
    /\ counter = NoCounter

TypeOK ==
    /\ phase \in {"unmounted", "mounted", "failed", "stopped"}
    /\ ctx \in {"2d", "null"}
    /\ animId \in Nat
    /\ rafPending \subseteq 1..(nextHandle - 1)
    /\ listener \in BOOLEAN
    /\ ticks \in 0..MaxTicks
    /\ resizes \in 0..MaxResizes

Init ==
    /\ OtherInit
    /\ \E s \in WindowSizes : innerW = s[1] /\ innerH = s[2]
    /\ canvasW = DefaultCanvasW
    /\ canvasH = DefaultCanvasH
    /\ ctx = "2d"
    /\ animId = Undefined
    /\ particles = <<>>
    /\ nextId = 1
    /\ rafPending = {}
    /\ nextHandle = 1
    /\ listener = FALSE
    /\ phase = "unmounted"
    /\ error = NoError
    /\ surface = <<>>
    /\ frameLog = <<>>
    /\ ticks = 0
    /\ resizes = 0
    /\ lastOp = "init"
    /\ prevW = DefaultCanvasW
    /\ prevH = DefaultCanvasH

resizeGrowOnly(ds) ==
    /\ canvasW' = (IF innerW' > canvasW THEN innerW' ELSE canvasW)
    /\ canvasH' = (IF innerH' > canvasH THEN innerH' ELSE canvasH)
    /\ prevW' = canvasW
    /\ prevH' = canvasH
    /\ particles' = init(particles, innerW', innerH', ds, nextId)
    /\ nextId' = nextId + Count(innerW', innerH')
    /\ surface' = <<>>
resizeIfChanged(ds) ==
    /\ canvasW' = innerW'
    /\ canvasH' = innerH'
    /\ prevW' = canvasW
    /\ prevH' = canvasH
    /\ IF innerW' = canvasW /\ innerH' = canvasH
       THEN UNCHANGED <<particles, nextId, surface>>
       ELSE /\ particles' = init(particles, innerW', innerH', ds, nextId)
            /\ nextId' = nextId + Count(innerW', innerH')
            /\ surface' = <<>>
\* resize(): canvas.width = innerWidth; canvas.height = innerHeight; init()
\* (assigning canvas.width blanks the bitmap)
resize(ds) ==
    /\ canvasW' = innerW'
    /\ canvasH' = innerH'
    /\ prevW' = canvasW
    /\ prevH' = canvasH
    /\ particles' = init(particles, innerW', innerH', ds, nextId)
    /\ nextId' = nextId + Count(innerW', innerH')
    /\ surface' = <<>>

MountDrawFirst(c) ==
    /\ UNCHANGED otherVars
    /\ phase = "unmounted"
    /\ ctx' = c
    /\ UNCHANGED <<innerW, innerH, ticks, resizes>>
    /\ canvasW' = innerW
    /\ canvasH' = innerH
    /\ prevW' = canvasW
    /\ prevH' = canvasH
    /\ lastOp' = "mount"
    /\ nextId' = nextId + Count(innerW, innerH)
    /\ surface' = <<>>
    /\ IF DrawThrows(c)
       THEN /\ particles' = particles
            /\ frameLog' = <<>>
            /\ error' = "TypeError"
            /\ phase' = "failed"
            /\ UNCHANGED <<animId, rafPending, nextHandle, listener>>
       ELSE /\ \E ds \in DrawSeqs(Count(innerW, innerH)) :
                 particles' = init(particles, innerW, innerH, ds, nextId)
            /\ frameLog' = FrameEvents(StepAll(particles, canvasW, canvasH), nextHandle)
            /\ animId' = StoredHandle(animId, nextHandle)
            /\ rafPending' = rafPending \cup {nextHandle}
            /\ nextHandle' = nextHandle + 1
            /\ listener' = TRUE
            /\ phase' = "mounted"
            /\ UNCHANGED error
\* the effect body: getContext, resize(), draw(), addEventListener
Mount(c) ==
    /\ UNCHANGED otherVars
    /\ phase = "unmounted"
    /\ ctx' = c
    /\ UNCHANGED <<innerW, innerH, ticks, resizes>>
    /\ canvasW' = innerW
    /\ canvasH' = innerH
    /\ prevW' = canvasW
    /\ prevH' = canvasH
    /\ lastOp' = "mount"
    /\ nextId' = nextId + Count(innerW, innerH)
    /\ \E ds \in DrawSeqs(Count(innerW, innerH)) :
         LET pool == init(particles, innerW, innerH, ds, nextId)
         IN  IF DrawThrows(c)
             THEN /\ particles' = pool
                  /\ surface' = <<>>
                  /\ frameLog' = <<>>
                  /\ error' = "TypeError"
                  /\ phase' = "failed"
                  /\ UNCHANGED <<animId, rafPending, nextHandle, listener>>
             ELSE /\ particles' = StepAll(pool, innerW, innerH)
                  /\ surface' = Render(particles', innerW, innerH)
                  /\ frameLog' = FrameEvents(particles', nextHandle)
                  /\ animId' = StoredHandle(animId, nextHandle)
                  /\ rafPending' = rafPending \cup {nextHandle}
                  /\ nextHandle' = nextHandle + 1
                  /\ listener' = TRUE
                  /\ phase' = "mounted"
                  /\ UNCHANGED error

TickFixedCount ==
    /\ UNCHANGED otherVars
    /\ ticks < MaxTicks
    /\ ticks' = ticks + 1
    /\ lastOp' = "tick"
    /\ LET k == Cardinality(rafPending)
           again == IF nextHandle > 2 THEN 0 ELSE k
       IN  /\ particles' = Frames(particles, canvasW, canvasH, k)
           /\ surface' = Painted(surface, particles', canvasW, canvasH, k)
           /\ frameLog' = Logged(frameLog, particles', nextHandle + k - 1, k)
           /\ rafPending' = nextHandle..(nextHandle + again - 1)
           /\ nextHandle' = nextHandle + again
           /\ animId' = IF again = 0 THEN animId
                        ELSE StoredHandle(animId, nextHandle + k - 1)
    /\ UNCHANGED <<innerW, innerH, canvasW, canvasH, ctx, nextId, listener,
                   phase, error, resizes, prevW, prevH>>
\* the browser delivers one animation frame: every callback pending at its
\* start is taken off the list and run; each is draw, which registers again
Tick ==
    /\ UNCHANGED otherVars
    /\ ticks < MaxTicks
    /\ ticks' = ticks + 1
    /\ lastOp' = "tick"
    /\ LET k == Cardinality(rafPending)
       IN  /\ particles' = Frames(particles, canvasW, canvasH, k)
           /\ surface' = Painted(surface, particles', canvasW, canvasH, k)
           /\ frameLog' = Logged(frameLog, particles', nextHandle + k - 1, k)
           /\ rafPending' = nextHandle..(nextHandle + k - 1)
           /\ nextHandle' = nextHandle + k
           /\ animId' = IF k = 0 THEN animId
                        ELSE StoredHandle(animId, nextHandle + k - 1)
    /\ UNCHANGED <<innerW, innerH, canvasW, canvasH, ctx, nextId, listener,
                   phase, error, resizes, prevW, prevH>>

WindowResizeCancels(w, h) ==
    /\ UNCHANGED otherVars
    /\ resizes < MaxResizes
    /\ resizes' = resizes + 1
    /\ lastOp' = "resize"
    /\ innerW' = w
    /\ innerH' = h
    /\ IF listener
       THEN /\ \E ds \in DrawSeqs(Count(w, h)) : resize(ds)
            /\ rafPending' = {}
       ELSE UNCHANGED <<canvasW, canvasH, prevW, prevH, particles, nextId, surface,
                        rafPending>>
    /\ UNCHANGED <<ctx, animId, nextHandle, listener, phase, error, ticks, frameLog>>
WindowResizeRedraws(w, h) ==
    /\ UNCHANGED otherVars
    /\ resizes < MaxResizes
    /\ resizes' = resizes + 1
    /\ lastOp' = "resize"
    /\ innerW' = w
    /\ innerH' = h
    /\ IF listener
       THEN /\ \E ds \in DrawSeqs(Count(w, h)) : resize(ds)
            /\ rafPending' = rafPending \cup {nextHandle}
            /\ nextHandle' = nextHandle + 1
            /\ animId' = nextHandle
       ELSE UNCHANGED <<canvasW, canvasH, prevW, prevH, particles, nextId, surface,
                        rafPending, nextHandle, animId>>
    /\ UNCHANGED <<ctx, listener, phase, error, ticks, frameLog>>
\* the window is resized to w x h and the browser dispatches 'resize'
WindowResize(w, h) ==
    /\ UNCHANGED otherVars
    /\ resizes < MaxResizes
    /\ resizes' = resizes + 1
    /\ lastOp' = "resize"
    /\ innerW' = w
    /\ innerH' = h
    /\ IF listener
       THEN \E ds \in DrawSeqs(Count(w, h)) : resize(ds)
       ELSE UNCHANGED <<canvasW, canvasH, prevW, prevH, particles, nextId, surface>>
    /\ UNCHANGED <<ctx, animId, rafPending, nextHandle, listener, phase, error, ticks,
                   frameLog>>

CleanupNoCancel ==
    /\ UNCHANGED otherVars
    /\ phase = "mounted"
    /\ phase' = "stopped"
    /\ lastOp' = "cleanup"
    /\ listener' = FALSE
    /\ UNCHANGED <<innerW, innerH, canvasW, canvasH, ctx, animId, particles, nextId,
                   rafPending, nextHandle, error, surface, frameLog, ticks, resizes, prevW, prevH>>
CleanupKeepListener ==
    /\ UNCHANGED otherVars
    /\ phase = "mounted"
    /\ phase' = "stopped"
    /\ lastOp' = "cleanup"
    /\ rafPending' = rafPending \ {animId}
    /\ UNCHANGED <<innerW, innerH, canvasW, canvasH, ctx, animId, particles, nextId,
                   listener, nextHandle, error, surface, frameLog, ticks, resizes, prevW, prevH>>
\* the effect's cleanup: cancelAnimationFrame(animId); removeEventListener
Cleanup ==
    /\ UNCHANGED otherVars
    /\ phase = "mounted"
    /\ phase' = "stopped"
    /\ lastOp' = "cleanup"
    /\ rafPending' = rafPending \ {animId}
    /\ listener' = FALSE
    /\ UNCHANGED <<innerW, innerH, canvasW, canvasH, ctx, animId, particles, nextId,
                   nextHandle, error, surface, frameLog, ticks, resizes, prevW, prevH>>

Next ==
    \/ \E c \in {"2d", "null"} : Mount(c)
    \/ Tick
    \/ \E s \in WindowSizes : WindowResize(s[1], s[2])
    \/ Cleanup

Spec == Init /\ [][Next]_vars

\* the effect under a browser that keeps delivering animation frames (weak
\* fairness of Tick), with resize events to the sizes that give an empty pool
NextLive ==
    \/ \E c \in {"2d", "null"} : Mount(c)
    \/ Tick
    \/ \E s \in {z \in WindowSizes : Count(z[1], z[2]) = 0} : WindowResize(s[1], s[2])
    \/ Cleanup

LiveSpec == Init /\ [][NextLive]_vars /\ WF_vars(Tick)

\* window sizes that give a pool of three particles, hence three pairs
PairSizes == {<<200, 240>>}

InitPairs ==
    /\ OtherInit
    /\ \E s \in PairSizes : innerW = s[1] /\ innerH = s[2]
    /\ canvasW = DefaultCanvasW
    /\ canvasH = DefaultCanvasH
    /\ ctx = "2d"
    /\ animId = Undefined
    /\ particles = <<>>
    /\ nextId = 1
    /\ rafPending = {}
    /\ nextHandle = 1
    /\ listener = FALSE
    /\ phase = "unmounted"
    /\ error = NoError
    /\ surface = <<>>
    /\ frameLog = <<>>
    /\ ticks = 0
    /\ resizes = 0
    /\ lastOp = "init"
    /\ prevW = DefaultCanvasW
    /\ prevH = DefaultCanvasH

NextPairs ==
    \/ Mount("2d")
    \/ Tick
    \/ Cleanup

\* the effect in a window of a size that gives three particles
SpecPairs == InitPairs /\ [][NextPairs]_vars

stopTogglesListener ==
    /\ rafPending' = rafPending \ {animId}
    /\ listener' = ~listener
\* the body of the cleanup function:
\* cancelAnimationFrame(animId); window.removeEventListener('resize', resize)
\* (both are no-ops in the browser when there is nothing to cancel or remove)
stop ==
    /\ rafPending' = rafPending \ {animId}
    /\ listener' = FALSE

\* the cleanup function is called once more after it has run
CleanupAgain ==
    /\ UNCHANGED otherVars
    /\ phase = "stopped"
    /\ stop
    /\ lastOp' = "cleanupAgain"
    /\ UNCHANGED <<innerW, innerH, canvasW, canvasH, ctx, animId, particles, nextId,
                   nextHandle, phase, error, surface, frameLog, ticks, resizes,
                   prevW, prevH>>

NextStop == Next \/ CleanupAgain

\* the effect with a host that may call the cleanup function repeatedly
SpecStop == Init /\ [][NextStop]_vars

-----------------------------------------------------------------------------
(* two runs of the frame loop from one pool *)

drawPoolJitter(pool, next, w, h) ==
    \E ds \in DrawSeqs(Len(pool)) :
        next = [i \in 1..Len(pool) |->
                  [StepParticle(pool[i], w, h) EXCEPT
                      !.x = NewParticle(ds[i], w, h, pool[i].id).x]]
\* what one call of draw does to the pool, as a relation between the pool
\* before and the pool after (lines 36-43; nothing else in draw writes to it)
drawPool(pool, next, w, h) == next = StepAll(pool, w, h)

\* Math.random() calls made so far: seven for every particle ever created
RandomCalls == 7 * (nextId - 1)

\* resize() builds a pool for the window; both runs start from it
TwinStart ==
    /\ lastOp = "init"
    /\ UNCHANGED <<innerW, innerH>>
    /\ \E ds \in DrawSeqs(Count(innerW, innerH)) : resize(ds)
    /\ twin' = particles'
    /\ lastOp' = "twinStart"
    /\ UNCHANGED <<ctx, animId, rafPending, nextHandle, listener, phase, error,
                   ticks, resizes, frameLog, stepVars, twoVars, shopVars, pageVars>>

\* one call of draw in each of the two runs
TwinFrame ==
    /\ lastOp \in {"twinStart", "twinFrame"}
    /\ ticks < MaxTicks
    /\ ticks' = ticks + 1
    /\ drawPool(particles, particles', canvasW, canvasH)
    /\ drawPool(twin, twin', canvasW, canvasH)
    /\ lastOp' = "twinFrame"
    /\ UNCHANGED <<innerW, innerH, canvasW, canvasH, ctx, animId, nextId, rafPending,
                   nextHandle, listener, phase, error, surface, resizes, frameLog,
                   prevW, prevH, stepVars, twoVars, shopVars, pageVars>>

NextTwin == TwinStart \/ TwinFrame

SpecTwin == Init /\ [][NextTwin]_vars

-----------------------------------------------------------------------------
(* the handlers statement by statement, under the browser's event loop *)

\* window sizes and Math.random() outcomes of the statement-level specification
StepSizes == {<<100, 100>>, <<200, 160>>}
StepDraws == { <<0, 1000, 0, 1999, 1000, 0, 1999>>, <<0, 0, 0, 0, 0, 0, 800>> }

RunningIgnored == FALSE
\* a handler is on the call stack: the event loop dispatches the next task (a
\* frame callback, a resize event, the effect, its cleanup) only when it is not
Running == run.pc # "idle"

At(pc) == run.pc = pc
Goto(pc) == run' = [run EXCEPT !.pc = pc]

\* React runs the effect body (line 8: getContext), which calls resize()
StartMount(c) ==
    /\ ~Running /\ phase = "unmounted"
    /\ ctx' = c
    /\ run' = [task |-> "mount", pc |-> "r13", idx |-> 0]
    /\ lastOp' = "start"
    /\ UNCHANGED <<innerW, innerH, canvasW, canvasH, animId, particles, nextId,
                   rafPending, nextHandle, listener, phase, error, surface, ticks,
                   resizes, frameLog, prevW, prevH, twin, built, twoVars, shopVars, pageVars>>

\* the window is resized to w x h; the browser calls the listener, if any
StartResize(w, h) ==
    /\ ~Running /\ resizes < MaxResizes
    /\ resizes' = resizes + 1
    /\ innerW' = w /\ innerH' = h
    /\ run' = IF listener THEN [task |-> "resize", pc |-> "r13", idx |-> 0] ELSE run
    /\ lastOp' = "start"
    /\ UNCHANGED <<canvasW, canvasH, ctx, animId, particles, nextId, rafPending,
                   nextHandle, listener, phase, error, surface, ticks, frameLog,
                   prevW, prevH, twin, built, twoVars, shopVars, pageVars>>

\* the browser takes a pending animation frame callback off the list and calls it
StartFrame ==
    /\ ~Running /\ ticks < MaxTicks
    /\ \E h \in rafPending : rafPending' = rafPending \ {h}
    /\ ticks' = ticks + 1
    /\ run' = [task |-> "frame", pc |-> "d35", idx |-> 0]
    /\ lastOp' = "start"
    /\ UNCHANGED <<innerW, innerH, canvasW, canvasH, ctx, animId, particles, nextId,
                   nextHandle, listener, phase, error, surface, resizes, frameLog,
                   prevW, prevH, twin, built, twoVars, shopVars, pageVars>>

\* line 13: canvas.width = window.innerWidth
SetWidth ==
    /\ At("r13")
    /\ canvasW' = innerW
    /\ prevW' = canvasW /\ prevH' = canvasH
    /\ surface' = <<>>
    /\ Goto("r14")
    /\ lastOp' = "step"
    /\ UNCHANGED <<innerW, innerH, canvasH, ctx, animId, particles, nextId, rafPending,
                   nextHandle, listener, phase, error, ticks, resizes, frameLog,
                   twin, built, twoVars, shopVars, pageVars>>

\* line 14: canvas.height = window.innerHeight
SetHeight ==
    /\ At("r14")
    /\ canvasH' = innerH
    /\ surface' = <<>>
    /\ Goto("i19")
    /\ lastOp' = "step"
    /\ UNCHANGED <<innerW, innerH, canvasW, ctx, animId, particles, nextId, rafPending,
                   nextHandle, listener, phase, error, ticks, resizes, frameLog,
                   prevW, prevH, twin, built, twoVars, shopVars, pageVars>>

\* lines 19-20: particles = []; count = floor(width * height / 16000)
EmptyPool ==
    /\ At("i19")
    /\ particles' = <<>>
    /\ built' = [w |-> canvasW, h |-> canvasH, first |-> nextId,
                 n |-> Count(canvasW, canvasH)]
    /\ Goto("i21")
    /\ lastOp' = "step"
    /\ UNCHANGED <<innerW, innerH, canvasW, canvasH, ctx, animId, nextId, rafPending,
                   nextHandle, listener, phase, error, surface, ticks, resizes,
                   frameLog, prevW, prevH, twin, twoVars, shopVars, pageVars>>

\* lines 21-31: one turn of the loop pushes one particle
Push ==
    /\ At("i21") /\ Len(particles) < built.n
    /\ \E d \in StepDraws :
         particles' = Append(particles, NewParticle(d, canvasW, canvasH, nextId))
    /\ nextId' = nextId + 1
    /\ lastOp' = "step"
    /\ UNCHANGED <<innerW, innerH, canvasW, canvasH, ctx, animId, rafPending,
                   nextHandle, listener, phase, error, surface, ticks, resizes,
                   frameLog, prevW, prevH, twin, stepVars, twoVars, shopVars, pageVars>>

\* the loop ends and init and resize return: to the effect body, which calls
\* draw() next (line 74), or to the browser
InitReturn ==
    /\ At("i21") /\ Len(particles) >= built.n
    /\ run' = IF run.task = "mount" THEN [run EXCEPT !.pc = "d35"] ELSE Idle
    /\ lastOp' = "step"
    /\ UNCHANGED <<innerW, innerH, canvasW, canvasH, ctx, animId, particles, nextId,
                   rafPending, nextHandle, listener, phase, error, surface, ticks,
                   resizes, frameLog, prevW, prevH, twin, built, twoVars, shopVars, pageVars>>

\* line 35: ctx.clearRect(0, 0, canvas.width, canvas.height); on a null context
\* it throws, which ends the effect
Clear ==
    /\ At("d35")
    /\ IF DrawThrows(ctx)
       THEN /\ error' = "TypeError"
            /\ phase' = "failed"
            /\ run' = Idle
            /\ UNCHANGED surface
       ELSE /\ surface' = <<ClearOp(canvasW, canvasH)>>
            /\ run' = [run EXCEPT !.pc = "d36", !.idx = 1]
            /\ UNCHANGED <<error, phase>>
    /\ lastOp' = "step"
    /\ UNCHANGED <<innerW, innerH, canvasW, canvasH, ctx, animId, particles, nextId,
                   rafPending, nextHandle, listener, ticks, resizes, frameLog,
                   prevW, prevH, twin, built, twoVars, shopVars, pageVars>>

\* lines 36-52: one turn of forEach steps one particle and fills it
StepFill ==
    /\ At("d36") /\ run.idx <= Len(particles)
    /\ particles' = [particles EXCEPT
                        ![run.idx] = StepParticle(@, canvasW, canvasH)]
    /\ surface' = Append(surface, FillOp(particles'[run.idx]))
    /\ run' = [run EXCEPT !.idx = @ + 1]
    /\ lastOp' = "step"
    /\ UNCHANGED <<innerW, innerH, canvasW, canvasH, ctx, animId, nextId, rafPending,
                   nextHandle, listener, phase, error, ticks, resizes, frameLog,
                   prevW, prevH, twin, built, twoVars, shopVars, pageVars>>

\* lines 55-69: the pair loops stroke the links
Links ==
    /\ At("d36") /\ run.idx > Len(particles)
    /\ surface' = surface \o Strokes(particles, 1)
    /\ Goto("d70")
    /\ lastOp' = "step"
    /\ UNCHANGED <<innerW, innerH, canvasW, canvasH, ctx, animId, particles, nextId,
                   rafPending, nextHandle, listener, phase, error, ticks, resizes,
                   frameLog, prevW, prevH, twin, built, twoVars, shopVars, pageVars>>

\* line 70: animId = requestAnimationFrame(draw), and draw returns: to the
\* effect body (line 75 is next) or to the browser
Register ==
    /\ At("d70")
    /\ animId' = StoredHandle(animId, nextHandle)
    /\ rafPending' = rafPending \cup {nextHandle}
    /\ nextHandle' = nextHandle + 1
    /\ run' = IF run.task = "mount" THEN [run EXCEPT !.pc = "m75"] ELSE Idle
    /\ lastOp' = "step"
    /\ UNCHANGED <<innerW, innerH, canvasW, canvasH, ctx, particles, nextId, listener,
                   phase, error, surface, ticks, resizes, frameLog, prevW, prevH,
                   twin, built, twoVars, shopVars, pageVars>>

\* line 75: window.addEventListener('resize', resize); the effect returns
AddListener ==
    /\ At("m75")
    /\ listener' = TRUE
    /\ phase' = "mounted"
    /\ run' = Idle
    /\ lastOp' = "step"
    /\ UNCHANGED <<innerW, innerH, canvasW, canvasH, ctx, animId, particles, nextId,
                   rafPending, nextHandle, error, surface, ticks, resizes, frameLog,
                   prevW, prevH, twin, built, twoVars, shopVars, pageVars>>

\* React runs the cleanup (line 76)
RunCleanup ==
    /\ ~Running /\ phase = "mounted"
    /\ stop
    /\ phase' = "stopped"
    /\ lastOp' = "cleanup"
    /\ UNCHANGED <<innerW, innerH, canvasW, canvasH, ctx, animId, particles, nextId,
                   nextHandle, error, surface, ticks, resizes, frameLog, prevW, prevH,
                   twin, stepVars, twoVars, shopVars, pageVars>>

InitSteps ==
    /\ Init
    /\ <<innerW, innerH>> \in StepSizes

NextSteps ==
    \/ \E c \in {"2d", "null"} : StartMount(c)
    \/ \E s \in StepSizes : StartResize(s[1], s[2])
    \/ StartFrame
    \/ SetWidth
    \/ SetHeight
    \/ EmptyPool
    \/ Push
    \/ InitReturn
    \/ Clear
    \/ StepFill
    \/ Links
    \/ Register
    \/ AddListener
    \/ RunCleanup

\* the effect with every handler run statement by statement
SpecSteps == InitSteps /\ [][NextSteps]_vars

-----------------------------------------------------------------------------
(* two effect instances in one window *)

TwoSizes == {<<100, 100>>, <<160, 100>>}

\* the callbacks of instance i among the pending ones
Owned(callbacks, i) == {c \in callbacks : c.owner = i}

\* the callbacks an animation frame registers for those it runs: each draw
\* registers itself again, in the order the callbacks run (by handle)
Reregistered(callbacks, first) ==
    {[h |-> first + Cardinality({d \in callbacks : d.h < c.h}), owner |-> c.owner] :
        c \in callbacks}

cancelAll(callbacks, id) == {}
\* cancelAnimationFrame(id): the callback with this handle leaves the list
cancel(callbacks, id) == {c \in callbacks : c.h # id}

\* the effect body of instance i: resize(), draw(), addEventListener
MountInst(i) ==
    /\ insts[i].phase = "unmounted"
    /\ \E ds \in [1..Count(innerW, innerH) -> StepDraws] :
         LET pool == StepAll(init(insts[i].particles, innerW, innerH, ds, nextId),
                             innerW, innerH)
         IN  insts' = [insts EXCEPT ![i] =
                 [phase |-> "mounted", canvasW |-> innerW, canvasH |-> innerH,
                  animId |-> StoredHandle(insts[i].animId, nextHandle),
                  particles |-> pool, listener |-> TRUE,
                  surface |-> Render(pool, innerW, innerH)]]
    /\ nextId' = nextId + Count(innerW, innerH)
    /\ rafTwo' = rafTwo \cup {[h |-> nextHandle, owner |-> i]}
    /\ nextHandle' = nextHandle + 1
    /\ lastOp' = "mount"
    /\ UNCHANGED <<innerW, innerH, canvasW, canvasH, ctx, animId, particles,
                   rafPending, listener, phase, error, surface, ticks, resizes,
                   frameLog, prevW, prevH, twin, stepVars, shopVars, pageVars>>

\* the browser delivers one animation frame: every pending callback runs, each
\* the draw of its own instance, and registers again
TickTwo ==
    /\ ticks < MaxTicks
    /\ ticks' = ticks + 1
    /\ insts' = [i \in 1..2 |->
          LET k == Cardinality(Owned(rafTwo, i))
              pool == Frames(insts[i].particles, insts[i].canvasW, insts[i].canvasH, k)
          IN  IF k = 0 THEN insts[i]
              ELSE [insts[i] EXCEPT
                      !.particles = pool,
                      !.surface = Render(pool, insts[i].canvasW, insts[i].canvasH),
                      !.animId = CHOOSE h \in {c.h : c \in Owned(Reregistered(rafTwo, nextHandle), i)} :
                                    \A c \in Owned(Reregistered(rafTwo, nextHandle), i) : c.h <= h]]
    /\ rafTwo' = Reregistered(rafTwo, nextHandle)
    /\ nextHandle' = nextHandle + Cardinality(rafTwo)
    /\ lastOp' = "tick"
    /\ UNCHANGED <<innerW, innerH, canvasW, canvasH, ctx, animId, particles, nextId,
                   rafPending, listener, phase, error, surface, resizes,
                   frameLog, prevW, prevH, twin, stepVars, shopVars, pageVars>>

\* the first particle identity the resize of instance i uses: instance 1's
\* listener, if registered, has built its pool before
FirstId(i, w, h) ==
    IF i = 2 /\ insts[1].listener THEN nextId + Count(w, h) ELSE nextId

\* the window is resized: the resize listener of every instance that has one runs
ResizeTwo(w, h) ==
    /\ resizes < MaxResizes
    /\ resizes' = resizes + 1
    /\ innerW' = w
    /\ innerH' = h
    /\ \E ds \in [1..2 -> [1..Count(w, h) -> StepDraws]] :
         insts' = [i \in 1..2 |->
            IF insts[i].listener
            THEN [insts[i] EXCEPT
                    !.canvasW = w, !.canvasH = h,
                    !.particles = init(insts[i].particles, w, h, ds[i], FirstId(i, w, h)),
                    !.surface = <<>>]
            ELSE insts[i]]
    /\ nextId' = nextId + Count(w, h) * Cardinality({i \in 1..2 : insts[i].listener})
    /\ lastOp' = "resize"
    /\ UNCHANGED <<canvasW, canvasH, ctx, animId, particles, rafPending, nextHandle,
                   listener, phase, error, surface, ticks, frameLog, prevW, prevH,
                   twin, stepVars, rafTwo, shopVars, pageVars>>

\* the cleanup of instance i: cancelAnimationFrame(animId); removeEventListener
CleanupInst(i) ==
    /\ insts[i].phase = "mounted"
    /\ rafTwo' = cancel(rafTwo, insts[i].animId)
    /\ insts' = [insts EXCEPT ![i].listener = FALSE, ![i].phase = "stopped"]
    /\ lastOp' = "cleanup"
    /\ UNCHANGED <<innerW, innerH, canvasW, canvasH, ctx, animId, particles, nextId,
                   rafPending, nextHandle, listener, phase, error, surface, ticks,
                   resizes, frameLog, prevW, prevH, twin, stepVars, shopVars, pageVars>>

InitTwo ==
    /\ Init
    /\ <<innerW, innerH>> \in TwoSizes

NextTwo ==
    \/ \E i \in 1..2 : MountInst(i)
    \/ TickTwo
    \/ \E s \in TwoSizes : ResizeTwo(s[1], s[2])
    \/ \E i \in 1..2 : CleanupInst(i)

\* two ParticleGrid effect instances alive in one window
SpecTwo == InitTwo /\ [][NextTwo]_vars

-----------------------------------------------------------------------------
(* the Browse page's BuyModal and the Sell page, under the router and the     *)
(* browser's timers                                                          *)

\* the time advances in steps of TimeStep ms up to MaxTime
TimeStep == 1000
MaxTime == 4000
\* Sell page instances and BuyModal instances that get mounted
MaxSells == 2
MaxModals == 2

\* setTimeout delays, in ms
SignDelay == 2000
DoneDelay == 2000
NavDelay == 3500

Routes == {"/", "/browse", "/sell"}

\* what the user types or selects in the Sell form; a number input's value
\* is '' or the text of a number
Titles == {"", "Desk"}
Categories == {"", "books"}
PriceTexts == { <<>>, <<"0">>, <<"0", ".", "5">>, <<"1">>, <<"2", ".", "5">>, <<"-", "2">> }

Digit == [c \in {"0", "1", "2", "3", "4", "5", "6", "7", "8", "9"} |->
            CASE c = "0" -> 0 [] c = "1" -> 1 [] c = "2" -> 2 [] c = "3" -> 3
              [] c = "4" -> 4 [] c = "5" -> 5 [] c = "6" -> 6 [] c = "7" -> 7
              [] c = "8" -> 8 [] c = "9" -> 9]

\* how many digits text has from position i on
RECURSIVE DigitRun(_, _)
DigitRun(text, i) ==
    IF i <= Len(text) /\ text[i] \in DOMAIN Digit THEN 1 + DigitRun(text, i + 1) ELSE 0

\* the value of the n digits of text from position i on
RECURSIVE DigitsValue(_, _, _)
DigitsValue(text, i, n) ==
    IF n = 0 THEN 0 ELSE 10 * DigitsValue(text, i, n - 1) + Digit[text[i + n - 1]]

\* parseFloat(text), in hundredths: an optional sign, digits, an optional
\* fraction; whatever follows is ignored; NaN when there is no digit
parseFloat(text) ==
    LET signed == Len(text) > 0 /\ text[1] \in {"-", "+"}
        a == IF signed THEN 2 ELSE 1
        n == DigitRun(text, a)
        dot == a + n <= Len(text) /\ text[a + n] = "."
        m == IF dot THEN DigitRun(text, a + n + 1) ELSE 0
        mag == 100 * DigitsValue(text, a, n)
               + (IF m = 0 THEN 0
                  ELSE IF m = 1 THEN 10 * DigitsValue(text, a + n + 1, 1)
                  ELSE DigitsValue(text, a + n + 1, 2))
    IN  IF n + m = 0 THEN [nan |-> TRUE, v |-> 0]
        ELSE [nan |-> FALSE, v |-> IF signed /\ text[1] = "-" THEN 0 - mag ELSE mag]

SubmitRejectsEmpty(form) == form.title = "" \/ form.category = ""
\* if (!form.title || !form.category || !price || price < 1) return
\* (!price holds of NaN and of 0; NaN < 1 is false)
SubmitRejects(form) ==
    LET price == parseFloat(form.price)
    IN  \/ form.title = ""
        \/ form.category = ""
        \/ (price.nan \/ price.v = 0)
        \/ (~price.nan /\ price.v < 100)

\* disabled={submitting || done}
SubmitDisabled(s) == s.submitting \/ s.done

BuyButtonAlways(step) == TRUE
\* {step === 'confirm' && ... <motion.button onClick={handleBuy}>}
BuyButtonShown(step) == step = "confirm"

\* setTimeout(fn, delay) called by instance inst
Timer(fn, delay, inst, id) == [id |-> id, due |-> clock + delay, fn |-> fn, inst |-> inst]

\* the timer the browser runs next: the earliest due, the oldest of those
NextDue(t) ==
    \A u \in timers : t.due < u.due \/ (t.due = u.due /\ t.id <= u.id)

\* the router moves to path to: the page of the old path, with all its state,
\* is unmounted, and the page of the new path is mounted afresh
RouteTo(to) ==
    /\ route' = to
    /\ buy' = IF to # route THEN [buy EXCEPT !.open = FALSE] ELSE buy
    /\ sell' = IF to = route THEN sell
               ELSE IF to = "/sell"
               THEN [mounted |-> TRUE, inst |-> sell.inst + 1, form |-> EmptyForm,
                     submitting |-> FALSE, done |-> FALSE]
               ELSE [sell EXCEPT !.mounted = FALSE]

\* the grid variables an action of the pages leaves alone
gridRest == <<innerW, innerH, canvasW, canvasH, ctx, animId, particles, nextId,
              rafPending, nextHandle, listener, phase, error, surface, ticks,
              resizes, frameLog, prevW, prevH>>

\* the user follows a link of the Navbar to another page
NavClick(to) ==
    /\ to # route
    /\ to = "/sell" => sell.inst < MaxSells
    /\ RouteTo(to)
    /\ lastOp' = "navClick"
    /\ UNCHANGED <<clock, timers, nextTimer, sellLog>>
    /\ UNCHANGED <<gridRest, twin, stepVars, twoVars, pageVars>>

\* Browse: onBuy={() => setBuying(item)} mounts a BuyModal
OpenModal ==
    /\ route = "/browse" /\ ~buy.open /\ buy.inst < MaxModals
    /\ buy' = [open |-> TRUE, inst |-> buy.inst + 1, step |-> "confirm",
               scheduled |-> 0]
    /\ lastOp' = "open"
    /\ UNCHANGED <<route, clock, timers, nextTimer, sell, sellLog>>
    /\ UNCHANGED <<gridRest, twin, stepVars, twoVars, pageVars>>

\* BuyModal: a click on the button of the confirm step calls handleBuy
HandleBuy ==
    /\ buy.open /\ BuyButtonShown(buy.step)
    /\ buy' = [buy EXCEPT !.step = "signing", !.scheduled = @ + 1]
    /\ timers' = timers \cup {Timer("buySuccess", SignDelay, buy.inst, nextTimer)}
    /\ nextTimer' = nextTimer + 1
    /\ lastOp' = "buy"
    /\ UNCHANGED <<route, clock, sell, sellLog>>
    /\ UNCHANGED <<gridRest, twin, stepVars, twoVars, pageVars>>

\* BuyModal: onClose, which is Browse's setBuying(null), unmounts the modal
CloseModal ==
    /\ buy.open
    /\ buy' = [buy EXCEPT !.open = FALSE]
    /\ lastOp' = "close"
    /\ UNCHANGED <<route, clock, timers, nextTimer, sell, sellLog>>
    /\ UNCHANGED <<gridRest, twin, stepVars, twoVars, pageVars>>

\* Sell: set(k, v) from an input's onChange
SetField(k, v) ==
    /\ sell.mounted
    /\ sell.form[k] # v
    /\ sell' = [sell EXCEPT !.form[k] = v]
    /\ lastOp' = "edit"
    /\ UNCHANGED <<route, clock, timers, nextTimer, buy, sellLog>>
    /\ UNCHANGED <<gridRest, twin, stepVars, twoVars, pageVars>>

\* Sell: a click on the submit button, when it is not disabled, calls handleSubmit
HandleSubmit ==
    /\ sell.mounted /\ ~SubmitDisabled(sell)
    /\ IF SubmitRejects(sell.form)
       THEN UNCHANGED <<sell, timers, nextTimer, sellLog>>
       ELSE /\ sell' = [sell EXCEPT !.submitting = TRUE]
            /\ timers' = timers \cup {Timer("sellDone", DoneDelay, sell.inst, nextTimer),
                                      Timer("sellNav", NavDelay, sell.inst, nextTimer + 1)}
            /\ nextTimer' = nextTimer + 2
            /\ sellLog' = Append(sellLog, [inst |-> sell.inst, ev |-> "submitting"])
    /\ lastOp' = "submit"
    /\ UNCHANGED <<route, clock, buy>>
    /\ UNCHANGED <<gridRest, twin, stepVars, twoVars, pageVars>>

\* time passes, with no timer coming due
Wait ==
    /\ clock + TimeStep <= MaxTime
    /\ \A t \in timers : clock + TimeStep <= t.due
    /\ clock' = clock + TimeStep
    /\ lastOp' = "wait"
    /\ UNCHANGED <<route, timers, nextTimer, buy, sell, sellLog>>
    /\ UNCHANGED <<gridRest, twin, stepVars, twoVars, pageVars>>

\* BuyModal: () => setStep('success'); a state setter of an unmounted
\* component does nothing
BuySuccess(t) ==
    /\ t.fn = "buySuccess"
    /\ buy' = IF buy.open /\ buy.inst = t.inst THEN [buy EXCEPT !.step = "success"]
              ELSE buy
    /\ UNCHANGED <<route, sell, sellLog>>

\* Sell: () => { setSubmitting(false); setDone(true) }
SellDone(t) ==
    /\ t.fn = "sellDone"
    /\ IF sell.mounted /\ sell.inst = t.inst
       THEN /\ sell' = [sell EXCEPT !.submitting = FALSE, !.done = TRUE]
            /\ sellLog' = Append(sellLog, [inst |-> t.inst, ev |-> "done"])
       ELSE UNCHANGED <<sell, sellLog>>
    /\ UNCHANGED <<route, buy>>

\* Sell: () => navigate('/browse')
SellNav(t) ==
    /\ t.fn = "sellNav"
    /\ RouteTo("/browse")
    /\ sellLog' = Append(sellLog, [inst |-> t.inst, ev |-> "navigate"])

\* the browser runs the timer that is due next
Fire ==
    /\ \E t \in timers :
         /\ NextDue(t)
         /\ clock' = t.due
         /\ timers' = timers \ {t}
         /\ (BuySuccess(t) \/ SellDone(t) \/ SellNav(t))
    /\ lastOp' = "timer"
    /\ UNCHANGED nextTimer
    /\ UNCHANGED <<gridRest, twin, stepVars, twoVars, pageVars>>

\* the pages start in a window of one size
InitShop ==
    /\ Init
    /\ <<innerW, innerH>> = <<0, 0>>

NextBuy ==
    \/ \E to \in {"/", "/browse"} : NavClick(to)
    \/ OpenModal
    \/ HandleBuy
    \/ CloseModal
    \/ Wait
    \/ Fire

\* the Browse page and its BuyModal, with the router and the timers
SpecBuy == InitShop /\ [][NextBuy]_vars

NextSell ==
    \/ \E to \in {"/", "/sell"} : NavClick(to)
    \/ \E v \in Titles : SetField("title", v)
    \/ \E v \in Categories : SetField("category", v)
    \/ \E v \in PriceTexts : SetField("price", v)
    \/ HandleSubmit
    \/ Wait
    \/ Fire

\* the Sell page, with the router and the timers
SpecSell == InitShop /\ [][NextSell]_vars

-----------------------------------------------------------------------------
(* The Chat page (pages/Profile.jsx, Chat) *)

MaxMsgs == 2

\* what the user types into the message input and into the offer input (a
\* number input's value is '' or the text of a number)
ChatTexts == {"", "ok?"}
OfferTexts == { <<>>, <<"6", ".", "5">> }

DigitChar(d) == CHOOSE c \in DOMAIN Digit : Digit[c] = d

\* the decimal digits of a natural number
RECURSIVE Decimal(_)
Decimal(n) ==
    IF n < 10 THEN <<DigitChar(n)>> ELSE Append(Decimal(n \div 10), DigitChar(n % 10))

\* x.toFixed(2), of a number given in hundredths
toFixed(x) ==
    IF x.nan THEN <<"N", "a", "N">>
    ELSE LET mag == IF x.v < 0 THEN 0 - x.v ELSE x.v
         IN  (IF x.v < 0 THEN <<"-">> ELSE <<>>)
             \o Decimal(mag \div 100)
             \o <<".", DigitChar((mag \div 10) % 10), DigitChar(mag % 10)>>

\* now.toLocaleTimeString('en-US', {hour:'2-digit', minute:'2-digit'}), of a
\* time in ms since midnight
TimeLabel(now) ==
    LET hour == (now \div 3600000) % 24
    IN  [h |-> IF hour % 12 = 0 THEN 12 ELSE hour % 12,
         m |-> (now \div 60000) % 60,
         pm |-> hour >= 12]

\* the messages of the threads, in order
RECURSIVE Messages(_)
Messages(threads) ==
    IF threads = <<>> THEN <<>> ELSE Head(threads).messages \o Messages(Tail(threads))

\* how many messages this Chat has sent
Sent(c) == Len(Messages(c.threads)) - Len(Messages(THREADS))

sendMsgEveryThread(c, text, offer, now) ==
    IF text = "" /\ offer = <<>> THEN c
    ELSE LET msg == IF offer # <<>>
                    THEN [Offer(now, TRUE, toFixed(parseFloat(offer)), "Your Offer", 0, 0, FALSE)
                            EXCEPT !.time = TimeLabel(now)]
                    ELSE [Text(now, TRUE, text, 0, 0, FALSE) EXCEPT !.time = TimeLabel(now)]
         IN  [c EXCEPT !.threads = [k \in DOMAIN c.threads |->
                                      [c.threads[k] EXCEPT !.messages = Append(@, msg)]],
                       !.input = "", !.offerAmt = <<>>, !.showOffer = FALSE]
\* sendMsg(text, offer = null); null and '' are both falsy and only the
\* truthiness of text and offer is tested, so null is "" and <<>> here;
\* Date.now() is now
sendMsg(c, text, offer, now) ==
    IF text = "" /\ offer = <<>> THEN c
    ELSE LET msg == IF offer # <<>>
                    THEN [Offer(now, TRUE, toFixed(parseFloat(offer)), "Your Offer", 0, 0, FALSE)
                            EXCEPT !.time = TimeLabel(now)]
                    ELSE [Text(now, TRUE, text, 0, 0, FALSE) EXCEPT !.time = TimeLabel(now)]
         IN  [c EXCEPT !.threads = [k \in DOMAIN c.threads |->
                                      IF c.threads[k].id = c.activeId
                                      THEN [c.threads[k] EXCEPT !.messages = Append(@, msg)]
                                      ELSE c.threads[k]],
                       !.input = "", !.offerAmt = <<>>, !.showOffer = FALSE]

\* what an action of the Chat page leaves alone
chatRest == <<clock, timers, nextTimer, sellLog, gridRest, twin, stepVars, twoVars, counter>>

\* the user follows the Navbar to or away from /chat; the Chat mounts with
\* its initial state, or unmounts
NavChat(to) ==
    /\ to # route
    /\ RouteTo(to)
    /\ chat' = IF to = "/chat" THEN ChatMounted ELSE [chat EXCEPT !.mounted = FALSE]
    /\ lastOp' = "navChat"
    /\ UNCHANGED chatRest

\* onClick={() => setActiveId(t.id)}
SelectThread(id) ==
    /\ chat.mounted
    /\ chat' = [chat EXCEPT !.activeId = id]
    /\ lastOp' = "selectThread"
    /\ UNCHANGED <<route, buy, sell, chatRest>>

\* onChange={e => setInput(e.target.value)}
SetInput(v) ==
    /\ chat.mounted
    /\ chat' = [chat EXCEPT !.input = v]
    /\ lastOp' = "setInput"
    /\ UNCHANGED <<route, buy, sell, chatRest>>

\* Make Offer: onClick={() => setShowOffer(v => !v)}
ToggleOffer ==
    /\ chat.mounted
    /\ chat' = [chat EXCEPT !.showOffer = ~@]
    /\ lastOp' = "toggleOffer"
    /\ UNCHANGED <<route, buy, sell, chatRest>>

\* the offer bar is rendered while showOffer:
\* onChange={e => setOfferAmt(e.target.value)}
SetOfferAmt(v) ==
    /\ chat.mounted /\ chat.showOffer
    /\ chat' = [chat EXCEPT !.offerAmt = v]
    /\ lastOp' = "setOfferAmt"
    /\ UNCHANGED <<route, buy, sell, chatRest>>

\* Cancel: onClick={() => setShowOffer(false)}
CancelOffer ==
    /\ chat.mounted /\ chat.showOffer
    /\ chat' = [chat EXCEPT !.showOffer = FALSE]
    /\ lastOp' = "cancelOffer"
    /\ UNCHANGED <<route, buy, sell, chatRest>>

\* Enter in the input, or the send button: sendMsg(input)
SendInput ==
    /\ chat.mounted
    /\ Sent(chat) < MaxMsgs
    /\ chat' = sendMsg(chat, chat.input, <<>>, clock)
    /\ lastOp' = "sendText"
    /\ UNCHANGED <<route, buy, sell, chatRest>>

\* Send of the offer bar: onClick={() => offerAmt && sendMsg(null, offerAmt)}
SendOffer ==
    /\ chat.mounted /\ chat.showOffer
    /\ Sent(chat) < MaxMsgs
    /\ chat' = IF chat.offerAmt # <<>> THEN sendMsg(chat, "", chat.offerAmt, clock)
               ELSE chat
    /\ lastOp' = IF chat.offerAmt # <<>> THEN "sendOffer" ELSE "offerClick"
    /\ UNCHANGED <<route, buy, sell, chatRest>>

NextChat ==
    \/ \E to \in {"/", "/chat"} : NavChat(to)
    \/ \E t \in DOMAIN THREADS : SelectThread(THREADS[t].id)
    \/ \E v \in ChatTexts : SetInput(v)
    \/ ToggleOffer
    \/ \E v \in OfferTexts : SetOfferAmt(v)
    \/ CancelOffer
    \/ SendInput
    \/ SendOffer
    \/ Wait

SpecChat == InitShop /\ [][NextChat]_vars

-----------------------------------------------------------------------------
(* The animated counters (Home: useCounter in StatCard; Sustainability:
   AnimatedNum) *)

\* useCounter(value, 1600, start); AnimatedNum({ target, duration = 2000 })
StatDuration == 1600
AnimDuration == 2000

\* the counters the pages render
Counters ==
    { [kind |-> "StatCard", target |-> v, duration |-> StatDuration] :
        v \in {247, 1842, 4219, 512} }
    \cup { [kind |-> "AnimatedNum", target |-> 4219, duration |-> AnimDuration] }

\* the timestamps of the frames are taken on a grid of FrameMs ms; the time
\* from one frame to the next
FrameMs == 50
FrameGaps == {50, 300, 700}

Uncapped(elapsed, duration) == elapsed
\* Math.min((ts - startTime) / duration, 1), times duration
Capped(elapsed, duration) == IF elapsed < duration THEN elapsed ELSE duration

\* Math.round((1 - Math.pow(1 - progress, 3)) * target), in exact arithmetic:
\* with D = duration and r = duration - elapsed on the grid, the eased value
\* is target * (D^3 - r^3) / D^3, and Math.round(x) is floor(x + 1/2)
Eased(target, elapsed, duration) ==
    LET D == duration \div FrameMs
        r == D - (Capped(elapsed, duration) \div FrameMs)
    IN  (2 * target * (D * D * D - r * r * r) + D * D * D) \div (2 * D * D * D)

\* if (progress < 1) requestAnimationFrame(step)
Reregisters(elapsed, duration) == elapsed < duration

\* what an action of a counter leaves alone
countRest == <<route, buy, sell, clock, timers, nextTimer, sellLog, gridRest, twin,
               stepVars, twoVars, chat>>

\* the page renders the counter: useState(0), and start / started is false
MountCounter(k) ==
    /\ counter.kind = "none"
    /\ counter' = [NoCounter EXCEPT !.kind = k.kind, !.mounted = TRUE,
                                    !.target = k.target, !.duration = k.duration]
    /\ lastOp' = "mountCounter"
    /\ UNCHANGED countRest

\* the IntersectionObserver reports isIntersecting: setCountStart(true) /
\* setStarted(true); when that changes the state the effect runs:
\* let startTime; requestAnimationFrame(step)
Intersect ==
    /\ counter.mounted
    /\ counter' = IF counter.start THEN counter
                  ELSE [counter EXCEPT !.start = TRUE, !.startTime = Undefined,
                                       !.pending = TRUE]
    /\ lastOp' = "intersect"
    /\ UNCHANGED countRest

\* the browser runs step / animate with the timestamp of a frame d ms after
\* the last one; setVal of an unmounted component does nothing
Frame(d) ==
    /\ counter.pending
    /\ LET ts == counter.now + d
           startTime == IF counter.startTime = Undefined THEN ts ELSE counter.startTime
           elapsed == ts - startTime
       IN  counter' = [counter EXCEPT
                         !.now = ts,
                         !.startTime = startTime,
                         !.val = IF counter.mounted
                                 THEN Eased(counter.target, elapsed, counter.duration)
                                 ELSE @,
                         !.pending = Reregisters(elapsed, counter.duration),
                         !.frames = @ + 1]
    /\ lastOp' = "frame"
    /\ UNCHANGED countRest

\* the page unmounts: the observer is disconnected, the frame callback is
\* not cancelled
UnmountCounter ==
    /\ counter.mounted
    /\ counter' = [counter EXCEPT !.mounted = FALSE]
    /\ lastOp' = "unmountCounter"
    /\ UNCHANGED countRest

CounterFrames == \E d \in FrameGaps : Frame(d)

NextCount ==
    \/ \E k \in Counters : MountCounter(k)
    \/ Intersect
    \/ CounterFrames
    \/ UnmountCounter

\* the browser keeps delivering frames to a registered callback
SpecCount == InitShop /\ [][NextCount]_vars /\ WF_vars(CounterFrames)

-----------------------------------------------------------------------------
(* Properties *)

Ids(pool) == {pool[i].id : i \in 1..Len(pool)}
Pairs(pool) == {ij \in (1..Len(pool)) \X (1..Len(pool)) : ij[1] < ij[2]}
\* squared distance of two particles, in squared fixed-point units
Dist2(p, q) == (p.x - q.x) * (p.x - q.x) + (p.y - q.y) * (p.y - q.y)
StrokedPairs == {<<surface[k].i, surface[k].j>> :
                   k \in {n \in 1..Len(surface) : surface[n].op = "stroke"}}
Degenerate == canvasW * canvasH < PoolDivisor

\* C1 (as stated): after mount, whatever frames and resizes follow, every
\* particle has 0 <= x < canvas.width and 0 <= y < canvas.height, the upper
\* bound strict.
C1_StrictWrap ==
    phase # "unmounted" =>
        \A i \in 1..Len(particles) :
            /\ 0 <= particles[i].x /\ particles[i].x < canvasW * Scale
            /\ 0 <= particles[i].y /\ particles[i].y < canvasH * Scale

\* C1 (amended): after mount, whatever frames and resizes follow, every
\* particle has 0 <= x <= canvas.width and 0 <= y <= canvas.height, the upper
\* bound included (a particle that steps below 0 is put at exactly the far
\* bound); the upper bound is strict for a pool no frame has stepped yet.
C1_ClosedWrap ==
    phase # "unmounted" =>
        \A i \in 1..Len(particles) :
            /\ 0 <= particles[i].x /\ particles[i].x <= canvasW * Scale
            /\ 0 <= particles[i].y /\ particles[i].y <= canvasH * Scale
            /\ (phase = "failed" \/ (lastOp = "resize" /\ listener)) =>
                  /\ particles[i].x < canvasW * Scale
                  /\ particles[i].y < canvasH * Scale

\* a particle sits exactly on the right edge after frames and a resize
C1_Witness ==
    /\ phase = "mounted" /\ lastOp = "tick" /\ resizes > 0
    /\ \E i \in 1..Len(particles) : particles[i].x = canvasW * Scale

\* C2: in every state after mount the pool holds exactly
\* floor(canvas.width * canvas.height / 16000) particles for the current canvas
\* size (frames neither add nor remove any); 400 x 400 gives 10.
C2_PoolSize ==
    /\ Count(400, 400) = 10
    /\ phase # "unmounted" => Len(particles) = (canvasW * canvasH) \div 16000

C2_Witness ==
    /\ phase = "mounted" /\ lastOp = "tick" /\ resizes > 0
    /\ Len(particles) = 2

\* C3: once the cleanup has run, no frame callback of the instance is pending or
\* runs: through any later animation frames the pool and the bitmap stay as they
\* were when the cleanup returned.
C3_StopFreezes ==
    [][phase = "stopped" =>
          /\ rafPending = {} /\ rafPending' = {}
          /\ particles' = particles
          /\ surface' = surface]_vars

C3_Witness ==
    /\ phase = "stopped" /\ lastOp = "tick" /\ ticks >= 2
    /\ Len(particles) > 0 /\ surface # <<>>

\* C4: a frame strokes no line for a pair whose distance, on the positions after
\* the step, is 90 or more (exactly 90 included), and does stroke one for a pair
\* at 89.9 or less.
C4_NoLinkFrom90 ==
    /\ \A k \in 1..Len(surface) :
         surface[k].op = "stroke" =>
             (surface[k].x1 - surface[k].x2) * (surface[k].x1 - surface[k].x2)
           + (surface[k].y1 - surface[k].y2) * (surface[k].y1 - surface[k].y2)
           < (90 * Scale) * (90 * Scale)
    /\ surface # <<>> =>
         \A ij \in Pairs(particles) :
            /\ Dist2(particles[ij[1]], particles[ij[2]]) >= (90 * Scale) * (90 * Scale)
                 => ij \notin StrokedPairs
            /\ Dist2(particles[ij[1]], particles[ij[2]])
                 <= ((899 * Scale) \div 10) * ((899 * Scale) \div 10)
                 => ij \in StrokedPairs

\* a frame was painted with two particles exactly 90 px apart, and no line
C4_Witness ==
    /\ surface # <<>> /\ Len(particles) = 2
    /\ Dist2(particles[1], particles[2]) = (90 * Scale) * (90 * Scale)
    /\ StrokedPairs = {}

\* C5: every resize event the listener receives replaces the whole pool, also
\* when the new size equals the old one: no particle object of the old pool is
\* in the new one, and the new pool has floor(w*h/16000) particles.
C5_ResizeDiscards ==
    [][(resizes' = resizes + 1 /\ listener) =>
          /\ Ids(particles') \cap Ids(particles) = {}
          /\ Len(particles') = (innerW' * innerH') \div 16000
          /\ canvasW' = innerW' /\ canvasH' = innerH']_vars

\* the listener handled a resize to the size the canvas already had
C5_Witness ==
    /\ lastOp = "resize" /\ listener
    /\ prevW = canvasW /\ prevH = canvasH
    /\ Len(particles) > 0

\* C6: after the cleanup nothing of the instance is left registered: no pending
\* frame callback and no resize listener, so a later resize event changes
\* neither the canvas size nor the pool.
C6_CleanupReleases ==
    /\ [](phase = "stopped" => rafPending = {} /\ ~listener)
    /\ [][phase = "stopped" =>
            UNCHANGED <<canvasW, canvasH, particles, surface, nextId>>]_vars

\* the window was resized after the cleanup and the canvas did not follow
C6_Witness ==
    /\ phase = "stopped" /\ lastOp = "resize"
    /\ (innerW # canvasW \/ innerH # canvasH)

\* C7: at most one frame callback is pending at any time, for every
\* interleaving of frames and resize events.
C7_OnePending == Cardinality(rafPending) <= 1

C7_Witness ==
    /\ phase = "mounted" /\ Cardinality(rafPending) = 1
    /\ resizes > 0 /\ ticks > 0 /\ lastOp = "resize"

\* C8: whenever a frame callback is pending, animId is the handle of exactly
\* that registration, the latest one made, so the cleanup's cancel hits it.
C8_HandleTracked ==
    rafPending # {} =>
        /\ animId # Undefined
        /\ rafPending = {animId}
        /\ animId = nextHandle - 1

C8_Witness ==
    /\ rafPending # {} /\ ticks >= 2 /\ animId >= 3

\* C9: on a degenerate canvas (width or height 0, or width*height < 16000) the
\* mount succeeds with an empty pool, every frame paints the clear and nothing
\* else, and the loop keeps registering its next frame.
C9_DegenerateSurface ==
    (Degenerate /\ ctx = "2d" /\ phase # "unmounted") =>
        /\ phase \in {"mounted", "stopped"}
        /\ error = NoError
        /\ particles = <<>>
        /\ lastOp \in {"mount", "tick"} /\ phase = "mounted"
             => surface = <<ClearOp(canvasW, canvasH)>>
        /\ surface \in {<<>>, <<ClearOp(canvasW, canvasH)>>}
        /\ phase = "mounted" => rafPending = {nextHandle - 1}

C9_Witness ==
    /\ phase = "mounted" /\ canvasW = 0 /\ canvasH = 0
    /\ lastOp = "tick" /\ ticks >= 2
    /\ surface = <<ClearOp(0, 0)>>
    /\ rafPending # {}

\* C10: when getContext returns null the mount ends in an error, and nothing is
\* retried or left behind: no frame callback is ever registered and no resize
\* listener is registered.
C10_NullContextFails ==
    (ctx = "null" /\ phase # "unmounted") =>
        /\ phase = "failed"
        /\ error = "TypeError"
        /\ rafPending = {} /\ nextHandle = 1 /\ animId = Undefined
        /\ ~listener

C10_Witness ==
    /\ phase = "failed" /\ ticks > 0 /\ resizes > 0

FillIds == {surface[k].id : k \in {n \in 1..Len(surface) : surface[n].op = "fill"}}
OpCount(kind) == Cardinality({n \in 1..Len(surface) : surface[n].op = kind})
EventCount(kind) == Cardinality({n \in 1..Len(frameLog) : frameLog[n].ev = kind})

\* C11: the mount sizes the canvas and builds the pool before its first frame:
\* the first frame clears the canvas at the window's size and steps and fills
\* the pool built for that size, and every painted frame shows the pool that
\* was built for the size of the canvas it cleared.
C11_MountOrder ==
    /\ (lastOp = "mount" /\ phase = "mounted") =>
          /\ surface # <<>>
          /\ surface[1] = ClearOp(innerW, innerH)
          /\ EventCount("step") = (innerW * innerH) \div 16000
    /\ (surface # <<>> /\ phase # "unmounted") =>
          /\ surface[1] = ClearOp(canvasW, canvasH)
          /\ OpCount("fill") = (canvasW * canvasH) \div 16000
          /\ FillIds = Ids(particles)

C11_Witness ==
    /\ lastOp = "mount" /\ phase = "mounted"
    /\ Len(particles) = 2 /\ EventCount("step") = 2 /\ OpCount("fill") = 2

\* C12: resize events are last-write-wins: after a burst of them the canvas has
\* the size of the last event, the pool has floor(w*h/16000) particles, each
\* inside that size, and the pool is one a single resize to that size builds
\* (fresh, unstepped particles; nothing of earlier events is left).
C12_LastResizeWins ==
    (lastOp = "resize" /\ listener) =>
        /\ canvasW = innerW /\ canvasH = innerH
        /\ Len(particles) = (innerW * innerH) \div 16000
        /\ surface = <<>>
        /\ \A i \in 1..Len(particles) :
             /\ 0 <= particles[i].x /\ particles[i].x < innerW * Scale
             /\ 0 <= particles[i].y /\ particles[i].y < innerH * Scale
             /\ \E d \in RandomDraws :
                  particles[i] = NewParticle(d, innerW, innerH, particles[i].id)

\* two resize events to different sizes arrived with no frame in between
C12_Witness ==
    /\ lastOp = "resize" /\ listener /\ resizes = 2 /\ ticks = 0
    /\ (prevW # canvasW \/ prevH # canvasH)
    /\ prevW # DefaultCanvasW
    /\ Len(particles) = 2

\* C13: the cleanup is idempotent and safe with nothing pending: calling it
\* again, when no frame callback is pending and the listener is gone, raises no
\* error and leaves pool, bitmap, canvas, scheduler and listener as they were.
C13_StopIdempotent ==
    /\ [](phase = "stopped" => error = NoError)
    /\ [][lastOp' = "cleanupAgain" =>
            /\ rafPending = {}
            /\ UNCHANGED <<particles, surface, canvasW, canvasH, rafPending,
                           nextHandle, animId, listener, error, phase>>]_vars

\* the cleanup was called again after later frames and resize events
C13_Witness ==
    /\ lastOp = "cleanupAgain" /\ phase = "stopped"
    /\ ticks > 0 /\ resizes > 0 /\ animId # Undefined

\* C14: a particle's radius, velocity and kind never change while it is in the
\* pool: no step of the program, frames included, alters r, vx, vy or type of a
\* particle object (or its place in the pool).
C14_FixedFields ==
    [][\A i \in 1..Len(particles) : \A j \in 1..Len(particles') :
          particles[i].id = particles'[j].id =>
              /\ i = j
              /\ particles'[j].r = particles[i].r
              /\ particles'[j].vx = particles[i].vx
              /\ particles'[j].vy = particles[i].vy
              /\ particles'[j].type = particles[i].type]_vars

\* after several frames a particle that left through the left edge is on the
\* right half, still moving left
C14_Witness ==
    /\ lastOp = "tick" /\ ticks >= 2 /\ Len(particles) = 2
    /\ \E i \in 1..Len(particles) :
         particles[i].vx < 0 /\ 2 * particles[i].x > canvasW * Scale

\* where a coordinate that stepped to v reappears on an axis of length bound
Reappear(v, bound) == IF v < 0 THEN bound ELSE IF v > bound THEN 0 ELSE v

\* C15: a frame advances every particle by exactly phase' = phase + 0.004 (one
\* life unit, so the phase strictly increases), x' = wrap(x + vx) and
\* y' = wrap(y + vy), each axis wrapped on its own against the canvas: a
\* coordinate that crossed an edge reappears at the opposite edge, not clamped.
C15_FrameStep ==
    [][(ticks' = ticks + 1 /\ rafPending # {}) =>
          /\ Len(particles') = Len(particles)
          /\ \A i \in 1..Len(particles) :
               /\ particles'[i].life = particles[i].life + 1
               /\ particles'[i].life > particles[i].life
               /\ particles'[i].x
                    = Reappear(particles[i].x + particles[i].vx, canvasW * Scale)
               /\ particles'[i].y
                    = Reappear(particles[i].y + particles[i].vy, canvasH * Scale)]_vars

\* a frame callback has just taken a right-moving particle across the right edge
C15_Witness ==
    /\ lastOp = "tick" /\ phase = "mounted"
    /\ \E i \in 1..Len(particles) : particles[i].x = 0 /\ particles[i].vx > 0

EventAt(kind, i) == {n \in 1..Len(frameLog) : frameLog[n].ev = kind /\ frameLog[n].i = i}
EventsOf(kind) == {n \in 1..Len(frameLog) : frameLog[n].ev = kind}

\* C16 (as stated): in every frame callback the simulation step of all
\* particles is complete before the first surface operation (the clear), and the
\* next frame is registered only after rendering.
C16_StepsBeforeClear ==
    frameLog # <<>> =>
        /\ \A a \in EventsOf("step") :
              \A b \in EventsOf("clear") \cup EventsOf("fill") \cup EventsOf("stroke") :
                 a < b
        /\ EventsOf("register") = {Len(frameLog)}

\* C16 (amended): in every frame callback the clear comes first; each
\* particle's step is complete before that particle is filled, and the steps of
\* all particles are complete before the first connection stroke; the next
\* frame is registered only after rendering.
C16_FrameOrder ==
    frameLog # <<>> =>
        /\ EventsOf("clear") = {1}
        /\ Cardinality(EventsOf("fill")) = Cardinality(EventsOf("step"))
        /\ \A i \in 1..Cardinality(EventsOf("step")) :
              /\ Cardinality(EventAt("step", i)) = 1
              /\ Cardinality(EventAt("fill", i)) = 1
              /\ \A a \in EventAt("step", i) : \A b \in EventAt("fill", i) : a < b
        /\ \A a \in EventsOf("step") : \A b \in EventsOf("stroke") : a < b
        /\ EventsOf("register") = {Len(frameLog)}

\* a frame callback stepped and filled two particles and stroked their link
C16_Witness ==
    /\ lastOp = "tick" /\ Len(particles) = 2
    /\ EventsOf("stroke") # {} /\ Cardinality(EventsOf("step")) = 2

\* C17: the loop perpetuates itself: while mounted, every frame callback leaves
\* exactly one new registration pending, so as long as the browser keeps
\* delivering frames and the cleanup has not run, the loop is alive at every
\* one of them (it does not halt by itself after some number of frames).
C17_SelfPerpetuating ==
    /\ [](phase = "mounted" => Cardinality(rafPending) = 1)
    /\ [][(phase = "mounted" /\ ticks' = ticks + 1) =>
            /\ rafPending' = {nextHandle}
            /\ rafPending' \cap rafPending = {}
            /\ nextHandle' = nextHandle + 1]_vars
    /\ (phase = "mounted") ~>
          (phase = "stopped" \/ (ticks = MaxTicks /\ rafPending # {}))

\* every frame the browser delivered ran draw, which registered again
C17_Witness ==
    /\ phase = "mounted" /\ ticks = MaxTicks
    /\ nextHandle = MaxTicks + 2 /\ rafPending = {MaxTicks + 1}

\* C18: in every painted frame the operations come in the order clear, then all
\* particle fills, then all connection strokes: one clear, which is first, and
\* no fill after a stroke.
C18_PaintOrder ==
    surface # <<>> =>
        /\ {n \in 1..Len(surface) : surface[n].op = "clear"} = {1}
        /\ \A a \in 1..Len(surface) : \A b \in 1..Len(surface) :
              (surface[a].op = "stroke" /\ surface[b].op = "fill") => b < a
        /\ \A a \in 1..Len(surface) : surface[a].op \in {"clear", "fill", "stroke"}

C18_Witness ==
    /\ lastOp = "tick" /\ OpCount("fill") = 2 /\ OpCount("stroke") = 1
    /\ surface[Len(surface)].op = "stroke"

\* the strokes painted for the pair ij
StrokesOf(ij) ==
    {n \in 1..Len(surface) :
        surface[n].op = "stroke" /\ surface[n].i = ij[1] /\ surface[n].j = ij[2]}

\* linkAlpha is strictly decreasing in the distance over [0, 90)
LinkAlphaDecreasing ==
    \A d \in 0..(90 * Scale - 2) : LinkAlpha(d + 1) < LinkAlpha(d)

\* C19: in every frame each pair (i, j), i < j, is stroked exactly once if its
\* distance d is below 90 and not at all otherwise, with line width 0.5 and
\* linkAlpha = 0.07 * (1 - d/90), which lies in (0, 0.07] and strictly
\* decreases with d over [0, 90).
C19_PairsStrokedOnce ==
    /\ LinkAlphaDecreasing
    /\ surface # <<>> =>
         /\ \A ij \in Pairs(particles) :
              Cardinality(StrokesOf(ij)) =
                 IF Dist2(particles[ij[1]], particles[ij[2]]) < (90 * Scale) * (90 * Scale)
                 THEN 1 ELSE 0
         /\ \A n \in 1..Len(surface) :
              surface[n].op = "stroke" =>
                 /\ <<surface[n].i, surface[n].j>> \in Pairs(particles)
                 /\ surface[n].width10 = 5
                 /\ surface[n].dist * surface[n].dist
                      <= Dist2(particles[surface[n].i], particles[surface[n].j])
                 /\ Dist2(particles[surface[n].i], particles[surface[n].j])
                      < (surface[n].dist + 1) * (surface[n].dist + 1)
                 /\ 100 * surface[n].alpha = 7 * (LinkAlphaDen - 100 * surface[n].dist)
                 /\ 0 < surface[n].alpha
                 /\ 100 * surface[n].alpha <= 7 * LinkAlphaDen

\* three particles, of whose three pairs some are linked and some are not
C19_Witness ==
    /\ lastOp = "tick" /\ Len(particles) = 3
    /\ OpCount("stroke") = 2
    /\ \E ij \in Pairs(particles) : StrokesOf(ij) = {}

Clamp(v, lo, hi) == IF v < lo THEN lo ELSE IF v > hi THEN hi ELSE v

\* sin(phase) * 0.4 + 0.5, in thousandths, lies in [0, 1] for every phase
UnclampedInRange ==
    \A life \in 0..(2 * 1571) :
        /\ 0 <= 4 * Sin100(life) + 500
        /\ 4 * Sin100(life) + 500 <= 1000

\* C20: the alpha of every particle fill equals
\* clamp(sin(phase) * 0.4 + 0.5, 0, 1) * baseOpacity, with baseOpacity 0.6 for
\* 'cyan' and 0.42 for 'acid' (in 1/100000: thousandths times 60 or 42); the
\* code does not clamp, and sin(phase) * 0.4 + 0.5 never leaves [0, 1].
C20_FillAlpha ==
    /\ UnclampedInRange
    /\ \A n \in 1..Len(surface) :
         surface[n].op = "fill" =>
            surface[n].alpha =
               Clamp(4 * Sin100(surface[n].life) + 500, 0, 1000)
                 * (IF surface[n].type = "cyan" THEN 60 ELSE 42)

\* an 'acid' particle was filled near the peak of the sine, and a 'cyan' one too
C20_Witness ==
    /\ \E n \in 1..Len(surface) :
         surface[n].op = "fill" /\ surface[n].type = "acid"
         /\ Sin100(surface[n].life) >= 99 /\ surface[n].alpha = 896 * 42
    /\ \E n \in 1..Len(surface) :
         surface[n].op = "fill" /\ surface[n].type = "cyan"

\* C23: between frames, for every sequence of frames and resizes, every particle
\* has 0 <= x <= canvas.width and 0 <= y <= canvas.height, both ends included;
\* a frame puts a coordinate that stepped below 0 exactly at the far bound and
\* one that stepped above the bound at 0.
C23_ClosedBounds ==
    /\ [](\A i \in 1..Len(particles) :
             /\ particles[i].x \in 0..(canvasW * Scale)
             /\ particles[i].y \in 0..(canvasH * Scale))
    /\ [][(ticks' = ticks + 1 /\ rafPending # {}) =>
            \A i \in 1..Len(particles) :
               /\ particles[i].x + particles[i].vx < 0
                    => particles'[i].x = canvasW * Scale
               /\ particles[i].x + particles[i].vx > canvasW * Scale
                    => particles'[i].x = 0
               /\ particles[i].y + particles[i].vy < 0
                    => particles'[i].y = canvasH * Scale
               /\ particles[i].y + particles[i].vy > canvasH * Scale
                    => particles'[i].y = 0]_vars

\* after a resize, a frame left one particle exactly on the bottom edge and put
\* another, which had stepped past it, on the top edge
C23_Witness ==
    /\ lastOp = "tick" /\ resizes > 0 /\ canvasH > 0
    /\ \E i \in 1..Len(particles) :
         particles[i].y = canvasH * Scale /\ particles[i].vy < 0
    /\ \E j \in 1..Len(particles) :
         particles[j].y = 0 /\ particles[j].vy > 0

\* C24: a resize event while the loop is running leaves the scheduler alone: the
\* pending registration is neither cancelled nor joined by another and animId is
\* unchanged, and the next frame runs on the pool the resize built.
C24_ResizeKeepsScheduler ==
    /\ [][(resizes' = resizes + 1 /\ phase = "mounted") =>
            /\ UNCHANGED <<rafPending, nextHandle, animId, phase, listener>>
            /\ rafPending' = {animId'}]_vars
    /\ [][(lastOp = "resize" /\ phase = "mounted" /\ ticks' = ticks + 1) =>
            /\ particles' = StepAll(particles, canvasW, canvasH)
            /\ FillIds' = Ids(particles)
            /\ rafPending' = {nextHandle} /\ animId' = nextHandle]_vars

\* a frame ran on the two-particle pool of the resize that preceded it
C24_Witness ==
    /\ lastOp = "tick" /\ phase = "mounted" /\ resizes > 0
    /\ Len(particles) = 2 /\ FillIds = Ids(particles)
    /\ \A i \in 1..Len(particles) : particles[i].id > 2
    /\ prevW # DefaultCanvasW

InDraw == run.pc \in {"d35", "d36", "d70"}

\* C21: resize and frame callbacks never interleave: no event is dispatched
\* while a handler runs, so every call of draw, from its first statement to
\* its last, sees one complete pool (all the particles of a single init, no
\* partially rebuilt one) and the canvas size that pool was built for.
C21_NoInterleaving ==
    /\ [](InDraw =>
            /\ Len(particles) = built.n
            /\ Ids(particles) = built.first..(built.first + built.n - 1)
            /\ built.w = canvasW /\ built.h = canvasH
            /\ built.n = Count(canvasW, canvasH)
            /\ canvasW = innerW /\ canvasH = innerH)
    /\ [][(InDraw /\ InDraw') =>
            /\ UNCHANGED <<canvasW, canvasH, built>>
            /\ Ids(particles') = Ids(particles)]_vars
    /\ [][Running =>
            /\ UNCHANGED <<innerW, innerH, resizes, ticks>>
            /\ run'.task \in {run.task, "none"}]_vars

\* a frame callback is in the middle of forEach, on the two-particle pool a
\* resize event built
C21_Witness ==
    /\ run.task = "frame" /\ run.pc = "d36" /\ run.idx = 2
    /\ resizes > 0 /\ Len(particles) = 2 /\ built.first > 2

\* C25: mounted instances are isolated: each has its own pool and its own
\* animId, naming its own pending callback; the cleanup of one instance cancels
\* only that instance's registration and removes only its listener, and the
\* other instance's loop keeps running (also when the other instance is mounted
\* after the cleanup).
C25_Isolated ==
    /\ [](/\ Ids(insts[1].particles) \cap Ids(insts[2].particles) = {}
          /\ \A i \in 1..2 :
               /\ insts[i].phase = "mounted" =>
                     /\ Owned(rafTwo, i) = {[h |-> insts[i].animId, owner |-> i]}
                     /\ insts[i].listener
               /\ insts[i].phase # "mounted" =>
                     Owned(rafTwo, i) = {} /\ ~insts[i].listener)
    /\ [][\A i \in 1..2 : \A j \in 1..2 :
            (i # j /\ insts[i].phase = "mounted" /\ insts'[i].phase = "stopped") =>
                /\ insts'[j] = insts[j]
                /\ Owned(rafTwo', j) = Owned(rafTwo, j)]_vars
    /\ [][\A j \in 1..2 :
            (insts[j].phase = "mounted" /\ ticks' = ticks + 1) =>
                /\ insts'[j].particles
                     = StepAll(insts[j].particles, insts[j].canvasW, insts[j].canvasH)
                /\ Owned(rafTwo', j) = {[h |-> insts'[j].animId, owner |-> j]}
                /\ insts'[j].animId >= nextHandle]_vars

\* instance 1 has been cleaned up; instance 2, with a particle to move, has
\* since run a frame
C25_Witness ==
    /\ insts[1].phase = "stopped" /\ insts[2].phase = "mounted"
    /\ lastOp = "tick" /\ insts[1].animId # Undefined
    /\ Len(insts[2].particles) = 1 /\ Len(insts[1].particles) = 1
    /\ insts[2].animId > 3
    /\ Owned(rafTwo, 2) # {}

\* the pending timers of BuyModal instance i
BuyTimers(i) == {t \in timers : t.fn = "buySuccess" /\ t.inst = i}

\* C26: the step of a BuyModal instance only moves forward along confirm ->
\* signing -> success: handleBuy runs only in step 'confirm', so an instance
\* schedules at most one success timer; 'success' is entered only from
\* 'signing' and only by the timer; and a step that is 'success' stays so.
C26_StepForward ==
    /\ [](/\ buy.scheduled <= 1
          /\ \A i \in 1..MaxModals : Cardinality(BuyTimers(i)) <= 1
          /\ (buy.step = "confirm") = (buy.scheduled = 0))
    /\ [][lastOp' = "buy" =>
            /\ buy.step = "confirm" /\ buy'.step = "signing"
            /\ BuyTimers(buy.inst) = {}]_vars
    /\ [][buy'.inst = buy.inst =>
            /\ <<buy.step, buy'.step>> \in
                  {<<"confirm", "confirm">>, <<"confirm", "signing">>,
                   <<"signing", "signing">>, <<"signing", "success">>,
                   <<"success", "success">>}
            /\ (buy'.step = "success" /\ buy.step # "success") =>
                  /\ lastOp' = "timer"
                  /\ clock' >= SignDelay
                  /\ BuyTimers(buy.inst) # {} /\ BuyTimers(buy.inst)' = {}]_vars

\* the second modal instance has reached 'success' by its timer, after the
\* first was closed while signing
C26_Witness ==
    /\ buy.open /\ buy.inst = 2 /\ buy.step = "success"
    /\ lastOp = "timer" /\ nextTimer = 3

\* the price texts that are no number, and those of a number below 1
NoNumber == { <<>> }
BelowOne == { <<"0">>, <<"0", ".", "5">>, <<"-", "2">> }

\* the price the Sell page computes from each text, in hundredths
PricesParsed ==
    /\ parseFloat(<<>>).nan
    /\ parseFloat(<<"0">>) = [nan |-> FALSE, v |-> 0]
    /\ parseFloat(<<"0", ".", "5">>) = [nan |-> FALSE, v |-> 50]
    /\ parseFloat(<<"1">>) = [nan |-> FALSE, v |-> 100]
    /\ parseFloat(<<"2", ".", "5">>) = [nan |-> FALSE, v |-> 250]
    /\ parseFloat(<<"-", "2">>) = [nan |-> FALSE, v |-> 0 - 200]

\* C27: handleSubmit does nothing on an invalid form: when the title is empty,
\* or the category is empty, or the price is not a number or is below 1, it
\* leaves form, submitting and done as they are and schedules no timer
\* (neither the completion timer nor the navigation timer).
C27_InvalidNoOp ==
    /\ [](PricesParsed)
    /\ [][(lastOp' = "submit"
           /\ (\/ sell.form.title = ""
               \/ sell.form.category = ""
               \/ sell.form.price \in NoNumber
               \/ sell.form.price \in BelowOne)) =>
            /\ UNCHANGED <<sell, timers, nextTimer, sellLog, route, clock>>]_vars

\* the button was clicked on a form whose only fault is a price of 0.5
C27_Witness ==
    /\ lastOp = "submit" /\ sell.mounted
    /\ sell.form.title # "" /\ sell.form.category # ""
    /\ sell.form.price = <<"0", ".", "5">>
    /\ ~sell.submitting /\ ~sell.done /\ timers = {}

\* what the submission of Sell instance i did, in order
SellEvents(i) == SelectSeq(sellLog, LAMBDA e : e.inst = i)
SellFlow == <<"submitting", "done", "navigate">>
NavTimers == {t \in timers : t.fn = "sellNav"}

\* C28 (as stated): after a valid submission the flow is submitting = true,
\* then done = true with submitting = false, then the navigation to '/browse',
\* in that order; the submit button is disabled from submitting = true until
\* the navigation, so there is no second submission and the navigation is
\* scheduled at most once.
C28_SubmitFlow ==
    /\ \A i \in 1..MaxSells :
         /\ Len(SellEvents(i)) <= Len(SellFlow)
         /\ \A k \in 1..Len(SellEvents(i)) : SellEvents(i)[k].ev = SellFlow[k]
    /\ (sell.mounted /\ \E t \in timers : t.inst = sell.inst) => SubmitDisabled(sell)
    /\ Cardinality(NavTimers) <= 1

\* what does hold: every Sell instance submits at most once and schedules one
\* navigation; an instance that is still mounted goes through the flow in
\* order, with the button disabled from the submission on.  The timers of an
\* instance that was unmounted still run: its navigation happens without its
\* 'done', and a later instance may have submitted in between.
SellFlowWhileMounted ==
    /\ \A i \in 1..MaxSells :
         /\ Cardinality({t \in NavTimers : t.inst = i}) <= 1
         /\ Cardinality({k \in 1..Len(sellLog) :
                            sellLog[k] = [inst |-> i, ev |-> "submitting"]}) <= 1
         /\ \A k \in 1..Len(SellEvents(i)) :
              /\ SellEvents(i)[k].ev = "submitting" => k = 1
              /\ SellEvents(i)[k].ev = "navigate" => k = Len(SellEvents(i))
    /\ (sell.mounted /\ \E t \in timers : t.inst = sell.inst) =>
         /\ SubmitDisabled(sell)
         /\ sell.submitting = ~sell.done
         /\ sell.done = (\A t \in timers : t.inst = sell.inst => t.fn = "sellNav")

\* C29: a call of Chat.sendMsg with a text or an offer appends exactly one
\* message, marked mine, to the end of the active thread, leaves every other
\* thread and all earlier messages as they were, and clears input, offerAmt
\* and showOffer; a call with empty text and no offer changes nothing.
C29_SendAppends ==
    [][ lastOp' \in {"sendText", "sendOffer"} =>
          IF lastOp' = "sendText" /\ chat.input = ""
          THEN chat' = chat
          ELSE /\ Len(chat'.threads) = Len(chat.threads)
               /\ \A k \in DOMAIN chat.threads :
                     LET old == chat.threads[k]
                         new == chat'.threads[k]
                     IN  IF old.id = chat.activeId
                         THEN /\ new.id = old.id
                              /\ Len(new.messages) = Len(old.messages) + 1
                              /\ SubSeq(new.messages, 1, Len(old.messages)) = old.messages
                              /\ new.messages[Len(new.messages)].mine
                         ELSE new = old
               /\ Cardinality({k \in DOMAIN chat.threads :
                                 chat.threads[k].id = chat.activeId}) = 1
               /\ chat'.activeId = chat.activeId
               /\ chat'.mounted = chat.mounted
               /\ chat'.input = ""
               /\ chat'.offerAmt = <<>>
               /\ chat'.showOffer = FALSE ]_vars

\* an offer of 6.5 has just been sent to the second thread, as 6.50, after a
\* text message went to the third; the first thread is as it was
C29_Witness ==
    /\ lastOp = "sendOffer"
    /\ chat.mounted /\ chat.activeId = "2" /\ chat.input = ""
    /\ LET msgs == chat.threads[2].messages
       IN  /\ Len(msgs) = Len(THREADS[2].messages) + 1
           /\ msgs[Len(msgs)].offer.amount = <<"6", ".", "5", "0">>
           /\ msgs[Len(msgs)].mine
    /\ Len(chat.threads[3].messages) = Len(THREADS[3].messages) + 1
    /\ chat.threads[1] = THREADS[1]

\* the animation has run to its end
Finished == counter.start /\ ~counter.pending

\* C30: an animated counter that has started gets, after finitely many
\* frames, a frame whose progress is 1; from then on its callback is not
\* registered again and, if the counter is still mounted, it displays
\* exactly the target; at all times the displayed value is between 0 and the
\* target and no step decreases it.
C30_Terminates ==
    /\ counter.start ~> Finished
    /\ [](Finished => /\ counter.now - counter.startTime >= counter.duration
                      /\ counter.mounted => counter.val = counter.target)
    /\ [][Finished => Finished']_vars
    /\ [](0 <= counter.val /\ counter.val <= counter.target)
    /\ [][counter'.val >= counter.val]_vars

\* the Sustainability counter has reached 4219 over at least four frames, of
\* which the last came after the end of the duration
C30_Witness ==
    /\ Finished /\ counter.mounted
    /\ counter.kind = "AnimatedNum"
    /\ counter.val = 4219
    /\ counter.frames >= 4
    /\ counter.now - counter.startTime > counter.duration

====
